---- MODULE Spec2Model ----
(***************************************************************************)
(* A model of corbit: the per-issue pipeline (pipeline.py run_pipeline)    *)
(* and the dispatchers that run it (orchestrator.py).                      *)
(*                                                                         *)
(* One run slot stands for one invocation of run_pipeline.  A slot moves   *)
(* from one suspension point (await) of run_pipeline to the next; the code *)
(* between two awaits runs without interleaving (cooperative scheduling).  *)
(***************************************************************************)
EXTENDS Naturals, Integers, Sequences, FiniteSets, TLC

\* ---------------------------------------------------------------- bounds
MaxRounds == 2
MaxIssues == 4
MaxSlug == 4
MaxWorkers == 2
MaxCalls == 3

Slugs == 1..MaxSlug
Slots == 1..MaxIssues

VARIABLES
    config,     \* CorbitConfig: the fields the dispatchers and the pipeline read
    issues,     \* the issue list being dispatched (a sequence of slugs)
    wsExists,   \* per slug: the worktree directory exists
    ckpt,       \* per slug: content of .corbit-state.json in the worktree
    prOpen,     \* per slug: find_pr_for_branch finds a pull request
    run,        \* per slot: the local state of one run_pipeline invocation
    log,        \* per slot: history of calls and checkpoint writes (ghost)
    mpc,        \* the dispatcher's position
    idx,        \* the dispatcher's loop index
    states,     \* the dispatcher's list of collected PipelineStates
    plan,       \* EpicPlan: groups of slots and the parent's slot (epic mode)
    merged,     \* per slug: find_merged_pr_for_branch finds a merged PR
    batch,      \* the slots of the _run_parallel call or epic group in progress
    mq,         \* index in states of the state the merge loop is at
    cancelReq,  \* tasks with a pending cancellation (Task.cancel() was called)
    outcome,    \* how the dispatcher ended, as asyncio.run sees it
    abortSeen,  \* a user abort has happened (ghost)
    sig,        \* the SIGINT disposition: the loop's handler and signal.signal's
    calls,      \* per run_streaming call: its position, locals and subprocess
    pulled,     \* the _update_main calls so far: after whose merge, and git's result
    notes,      \* per slot: a tracker notification of the run has failed (ghost)
    topo,       \* a dependency map and the two _topological_groups calls on it
    rev,        \* a reviewer output and what Reviewer._parse_review makes of it
    tree,       \* git's worktrees and branches and the create_worktree calls made
    doc,        \* an issue (labels, body lines) and what epic.py makes of it
    reader      \* the stdout pipe of a subprocess and _read_stdout's locals

vars == <<config, issues, wsExists, ckpt, prOpen, run, log, mpc, idx, states,
          plan, merged, batch, mq, cancelReq, outcome, abortSeen, sig, calls,
          pulled, notes, topo, rev, tree, doc, reader>>

\* the variables of the dispatchers and the pipeline
dvars == <<config, issues, wsExists, ckpt, prOpen, run, log, mpc, idx, states,
           plan, merged, batch, mq, cancelReq, outcome, abortSeen, pulled,
           notes, topo, rev, tree, doc, reader>>

Range(s) == {s[k] : k \in DOMAIN s}

\* ---------------------------------------------------------- checkpoints
\* _save_state writes exactly the keys it is given; a key that is missing
\* in the file is modelled as "" (strings) or 0 (review_round).
NoCkpt == [step |-> "", session_id |-> "", review_round |-> 0, review_comments |-> ""]

DoneSteps == {"implemented", "reviewed", "feedback_applied"}

\* review.comments of the review of round n in this run (non-empty text)
FreshComments(n) == IF n = 1 THEN "fb1" ELSE IF n = 2 THEN "fb2"
                    ELSE IF n = 3 THEN "fb3" ELSE "fbN"

\* int(saved.get("review_round", 1))
SavedRound(saved) == IF saved.review_round = 0 THEN 1 ELSE saved.review_round

\* ----------------------------------------------------------- run record
IdleRun == [pc |-> "idle", status |-> "pending", current_round |-> 0,
            round_num |-> 0, saved |-> NoCkpt, pending_feedback |-> "",
            last_review_comments |-> "", session_id |-> "", pr |-> FALSE,
            worktree |-> FALSE, error |-> "", review_history |-> <<>>,
            res |-> "none"]

StreamPcs == {"impl", "fb_resume", "review", "fb"}
DbgPcs == {"dbg_wt", "dbg_impl", "dbg_fb_resume", "dbg_review", "dbg_fb"}

Ev(e, n, x, c) == [ev |-> e, n |-> n, x |-> x, c |-> c]

\* ------------------------------------------------ run_pipeline, in pieces
\* A context is what one step of run_pipeline works on: its local state r,
\* its history lg and the checkpoint file ck of its worktree.
Ctx(i) == [r |-> run[i], lg |-> log[i], ck |-> ckpt[issues[i]]]

Logged(c, e) == [c EXCEPT !.lg = Append(@, e)]

\* _save_state(worktree, step, **extra): overwrite the file with these keys
SaveState(c, step, sid, round, comments) ==
    [c EXCEPT !.ck = [step |-> step, session_id |-> sid,
                      review_round |-> round, review_comments |-> comments],
              !.lg = Append(@, Ev("save", round, step, comments))]

\* a finally clause that cleans up whatever the status
FinallyAnyStatus(c) ==
    IF c.r.worktree
    THEN [c EXCEPT !.ck = NoCkpt, !.r.pc = "cleanup",
                   !.lg = Append(@, Ev("unlink", 0, "", ""))]
    ELSE [c EXCEPT !.r.pc = "done", !.r.res = "state"]

\* the finally clause of run_pipeline, then the return
Finally(c) ==
    IF c.r.worktree /\ c.r.status \in {"approved", "merged"}
    THEN [c EXCEPT !.ck = NoCkpt, !.r.pc = "cleanup",
                   !.lg = Append(@, Ev("unlink", 0, "", ""))]
    ELSE [c EXCEPT !.r.pc = "done", !.r.res = "state"]

\* state.status = FAILED; state.error = ...; return state
Fail(c, err) == Finally([c EXCEPT !.r.status = "failed", !.r.error = err])

\* except KeyboardInterrupt: (pipeline.py 526-529)
OnKeyboardInterrupt(c) == Fail(c, "Aborted by user")

\* an exception handler that records the text and leaves the status alone
OnExceptionKeepsStatus(c) == Finally([c EXCEPT !.r.error = "exception"])

\* except Exception as exc: (pipeline.py 531-539)
OnException(c) == Fail(c, "exception")

\* what happens right after the debug prompt that guards `target`
Arrive(c, target) ==
    CASE target = "wt" -> [c EXCEPT !.r.pc = "wt"]
      [] target = "impl" ->
            Logged([c EXCEPT !.r.pc = "impl", !.r.status = "implementing"],
                   Ev("implement", 0, c.r.saved.session_id, ""))
      [] target = "fb_resume" ->
            Logged([c EXCEPT !.r.pc = "fb_resume", !.r.status = "implementing"],
                   Ev("apply_feedback", c.r.round_num, c.r.session_id,
                      c.r.pending_feedback))
      [] target = "review" ->
            Logged([c EXCEPT !.r.pc = "review", !.r.status = "reviewing",
                             !.r.current_round = c.r.round_num],
                   Ev("review", c.r.round_num, "", c.r.last_review_comments))
      [] target = "fb" ->
            Logged([c EXCEPT !.r.pc = "fb", !.r.status = "implementing"],
                   Ev("apply_feedback", c.r.round_num, c.r.session_id,
                      c.r.last_review_comments))

DbgOf(target) ==
    CASE target = "wt" -> "dbg_wt"
      [] target = "impl" -> "dbg_impl"
      [] target = "fb_resume" -> "dbg_fb_resume"
      [] target = "review" -> "dbg_review"
      [] target = "fb" -> "dbg_fb"

TargetOf(dbg) ==
    CASE dbg = "dbg_wt" -> "wt"
      [] dbg = "dbg_impl" -> "impl"
      [] dbg = "dbg_fb_resume" -> "fb_resume"
      [] dbg = "dbg_review" -> "review"
      [] dbg = "dbg_fb" -> "fb"

\* _debug_checkpoint(config, ...): a prompt in debug mode, nothing otherwise
Proceed(c, target) ==
    IF config.debug THEN [c EXCEPT !.r.pc = DbgOf(target)] ELSE Arrive(c, target)

\* str() of a small number, as the f-string formats it
Digit == [d \in 0..9 |-> CASE d = 0 -> "0" [] d = 1 -> "1" [] d = 2 -> "2"
                            [] d = 3 -> "3" [] d = 4 -> "4" [] d = 5 -> "5"
                            [] d = 6 -> "6" [] d = 7 -> "7" [] d = 8 -> "8"
                            [] OTHER -> "9"]

\* f"Exhausted {config.max_review_rounds} review rounds without approval"
ExhaustedText(n) == "Exhausted " \o Digit[n] \o " review rounds without approval"

\* a loop that approves when the rounds are used up
LoopHeadApprovesExhausted(c, n) ==
    IF n > config.max_review_rounds
    THEN Finally([c EXCEPT !.r.status = "approved"])
    ELSE LET d == [c EXCEPT !.r.round_num = n] IN
         IF d.r.pending_feedback # "" THEN Proceed(d, "fb_resume")
                                      ELSE Proceed(d, "review")

\* the loop with its bound off by one: range(start_round, max_review_rounds + 2)
LoopHeadOffByOne(c, n) ==
    IF n > config.max_review_rounds + 1
    THEN Fail(c, ExhaustedText(config.max_review_rounds))
    ELSE LET d == [c EXCEPT !.r.round_num = n] IN
         IF d.r.pending_feedback # "" THEN Proceed(d, "fb_resume")
                                      ELSE Proceed(d, "review")

\* the head of `for round_num in range(start_round, max_review_rounds + 1)`
LoopHead(c, n) ==
    IF n > config.max_review_rounds
    THEN Fail(c, ExhaustedText(config.max_review_rounds))
    ELSE LET d == [c EXCEPT !.r.round_num = n] IN
         IF d.r.pending_feedback # "" THEN Proceed(d, "fb_resume")
                                      ELSE Proceed(d, "review")

\* a resume that forgets the stored feedback of a reviewed checkpoint
LoopEntryNoPending(c) ==
    IF config.iteration_mode = "single-pass"
    THEN Finally([c EXCEPT !.r.status = "approved"])
    ELSE LET sv == c.r.saved IN
         IF sv.step = "reviewed"
         THEN LoopHead([c EXCEPT !.r.last_review_comments = sv.review_comments],
                       SavedRound(sv))
         ELSE IF sv.step = "feedback_applied"
         THEN LoopHead([c EXCEPT !.r.last_review_comments = sv.review_comments],
                       SavedRound(sv) + 1)
         ELSE LoopHead(c, 1)

\* "3. Review loop": single-pass exit, then where to resume (322-342)
LoopEntry(c) ==
    IF config.iteration_mode = "single-pass"
    THEN Finally([c EXCEPT !.r.status = "approved"])
    ELSE LET sv == c.r.saved IN
         IF sv.step = "reviewed"
         THEN LoopHead([c EXCEPT !.r.pending_feedback = sv.review_comments,
                                 !.r.last_review_comments = sv.review_comments],
                       SavedRound(sv))
         ELSE IF sv.step = "feedback_applied"
         THEN LoopHead([c EXCEPT !.r.last_review_comments = sv.review_comments],
                       SavedRound(sv) + 1)
         ELSE LoopHead(c, 1)

\* a skip decision that looks at the pull request only
SkipImplementOnPr(pr, saved_step) == pr

\* implementation is skipped: a PR exists and the checkpoint says it is done
SkipImplement(pr, saved_step) == pr /\ saved_step \in DoneSteps

Commit(i, c) ==
    /\ run' = [run EXCEPT ![i] = c.r]
    /\ log' = [log EXCEPT ![i] = c.lg]
    /\ ckpt' = [ckpt EXCEPT ![issues[i]] = c.ck]

\* --------------------------------------------------------------- tasks
\* Task 0 is the main task (asyncio.run's); in _run_parallel slot i runs in
\* its own task i, otherwise run_pipeline is awaited by the main task.
TaskOf(i) == IF mpc = "gather" THEN i ELSE 0

\* a gate whose permit comes back only when the pipeline ends approved
HoldersUnlessFailed ==
    {i \in Range(batch) : /\ run[i].pc \notin {"idle", "gate"}
                          /\ ~(run[i].pc = "done" /\ run[i].status = "approved")}

\* tasks inside `async with semaphore`, i.e. inside run_pipeline
Holders == {i \in Range(batch) : run[i].pc \notin {"idle", "gate", "done"}}

\* a task waiting at the semaphore can enter: it does so before any run
\* moves on (acquiring a free permit involves no I/O)
GateOpen ==
    /\ mpc = "gather"
    /\ Cardinality(Holders) < config.parallel_workers
    /\ \E i \in Range(batch) : run[i].pc = "gate" /\ i \notin cancelReq

Runnable(i) == TaskOf(i) \notin cancelReq /\ ~GateOpen

LiveTasks ==
    (IF outcome = "running" THEN {0} ELSE {})
    \cup (IF mpc = "gather"
          THEN {i \in Range(batch) : run[i].pc # "done"} ELSE {})

\* run_pipeline(issue, config) is entered: state = PipelineState(...), then
\* the first debug prompt or create_worktree
BeginRun(i) == Proceed([Ctx(i) EXCEPT !.r = IdleRun, !.lg = <<>>], "wt")

\* ------------------------------------------------- run_pipeline, actions
\* the answer to a debug prompt: Enter continues, q raises KeyboardInterrupt
DebugAnswer(i) ==
    /\ run[i].pc \in DbgPcs
    /\ Runnable(i)
    /\ \E q \in BOOLEAN :
          IF q THEN /\ Commit(i, OnKeyboardInterrupt(Ctx(i)))
                    /\ abortSeen' = TRUE
               ELSE /\ Commit(i, Arrive(Ctx(i), TargetOf(run[i].pc)))
                    /\ UNCHANGED abortSeen
    /\ UNCHANGED <<tree, doc, reader, topo, rev, sig, calls, pulled, notes, config, issues, plan, merged, batch, mq, wsExists, prOpen, mpc, idx, states,
                   cancelReq, outcome>>

\* create_worktree returned; _load_state; find_pr_for_branch; the decision
\* whether implementation is skipped
AfterWorktree(c, pr) ==
    LET c1 == Logged([c EXCEPT !.r.worktree = TRUE, !.r.saved = c.ck],
                     Ev("find_pr", 0, IF pr THEN "found" ELSE "none", c.ck.step))
    IN IF SkipImplement(pr, c1.r.saved.step)
       THEN LoopEntry(Logged([c1 EXCEPT !.r.session_id = c1.r.saved.session_id,
                                        !.r.pr = TRUE],
                             Ev("skip_implement", 0, "", "")))
       ELSE Proceed(c1, "impl")

WorktreeReady(i) ==
    /\ run[i].pc = "wt"
    /\ Runnable(i)
    /\ \E ok \in BOOLEAN :
          IF ok THEN /\ wsExists' = [wsExists EXCEPT ![issues[i]] = TRUE]
                     /\ Commit(i, AfterWorktree(Ctx(i), prOpen[issues[i]]))
                ELSE /\ Commit(i, OnException(Ctx(i)))
                     /\ UNCHANGED wsExists
    /\ UNCHANGED <<tree, doc, reader, topo, rev, sig, calls, pulled, notes, config, issues, plan, merged, batch, mq, prOpen, mpc, idx, states, cancelReq,
                   outcome, abortSeen>>

AgentResults == {"ok", "fail", "timeout"}
AgentSessions == {"", "new"}

\* an implementation step that calls the coder again after a failure
AfterImplementRetries(c, res, sid) ==
    IF res = "ok"
    THEN Logged([c EXCEPT !.r.session_id = sid, !.r.pc = "pr"],
                Ev("implement_ok", 0, sid, ""))
    ELSE Arrive(Logged(c, Ev("implement_fail", 0, res, "")), "impl")

\* agent.implement returned (243-270)
AfterImplement(c, res, sid) ==
    IF res = "ok"
    THEN Logged([c EXCEPT !.r.session_id = sid, !.r.pc = "pr"],
                Ev("implement_ok", 0, sid, ""))
    ELSE Fail(Logged(c, Ev("implement_fail", 0, res, "")), "Coder agent failed")

ImplementReturn(i) ==
    /\ run[i].pc = "impl"
    /\ Runnable(i)
    /\ \E res \in AgentResults, sid \in AgentSessions, madePr \in BOOLEAN :
          /\ (res # "ok" => sid = "")
          /\ prOpen' = [prOpen EXCEPT ![issues[i]] = @ \/ madePr]
          /\ Commit(i, AfterImplement(Ctx(i), res, sid))
    /\ UNCHANGED <<tree, doc, reader, topo, rev, sig, calls, pulled, notes, config, issues, plan, merged, batch, mq, wsExists, mpc, idx, states, cancelReq,
                   outcome, abortSeen>>

\* state.pr = pr; _save_state(worktree, "implemented", ...) (296-304)
AfterPrKnown(c) ==
    SaveState([c EXCEPT !.r.pr = TRUE, !.r.pc = "rebase"],
              "implemented", c.r.session_id, 0, "")

\* find_pr_for_branch after the implementation, else push and create one
PrKnown(i) ==
    /\ run[i].pc = "pr"
    /\ Runnable(i)
    /\ \/ /\ prOpen[issues[i]]
          /\ Commit(i, AfterPrKnown(Ctx(i)))
          /\ UNCHANGED prOpen
       \/ /\ ~prOpen[issues[i]]
          /\ prOpen' = [prOpen EXCEPT ![issues[i]] = TRUE]
          /\ Commit(i, AfterPrKnown(Ctx(i)))
       \/ /\ ~prOpen[issues[i]]
          /\ Commit(i, OnException(Ctx(i)))
          /\ UNCHANGED prOpen
    /\ UNCHANGED <<tree, doc, reader, topo, rev, sig, calls, pulled, notes, config, issues, plan, merged, batch, mq, wsExists, mpc, idx, states, cancelReq,
                   outcome, abortSeen>>

\* a rebase failure that is recorded but not returned on
AfterRebaseGoesOn(c, ok) ==
    LoopEntry(IF ok THEN c
              ELSE [c EXCEPT !.r.status = "failed", !.r.error = "Rebase failed"])

\* _rebase_onto_base returned or raised RuntimeError (313-320)
AfterRebase(c, ok) ==
    IF ok THEN LoopEntry(c) ELSE Fail(c, "Rebase failed")

RebaseReturn(i) ==
    /\ run[i].pc = "rebase"
    /\ Runnable(i)
    /\ \E ok \in BOOLEAN : Commit(i, AfterRebase(Ctx(i), ok))
    /\ UNCHANGED <<tree, doc, reader, topo, rev, sig, calls, pulled, notes, config, issues, plan, merged, batch, mq, wsExists, prOpen, mpc, idx, states,
                   cancelReq, outcome, abortSeen>>

\* session_id = result.session_id or session_id
Session(c, sid) == IF sid # "" THEN sid ELSE c.r.session_id

\* apply_feedback whose success is followed by a review of the same round
AfterFeedbackSameRound(c, res, sid) ==
    IF res = "ok"
    THEN LET c1 == Logged([c EXCEPT !.r.session_id = Session(c, sid),
                                    !.r.pending_feedback = ""],
                          Ev("apply_ok", c.r.round_num, sid, ""))
         IN LoopHead(SaveState(c1, "feedback_applied", c1.r.session_id,
                               c1.r.round_num, c1.r.last_review_comments),
                     c1.r.round_num)
    ELSE Fail(Logged(c, Ev("apply_fail", c.r.round_num, res, "")),
              "Coder agent failed on feedback")

\* apply_feedback whose checkpoint is written whatever the result
AfterFeedbackAlwaysSaves(c, res, sid) ==
    LET c1 == Logged([c EXCEPT !.r.session_id = Session(c, sid),
                               !.r.pending_feedback = ""],
                     Ev(IF res = "ok" THEN "apply_ok" ELSE "apply_fail",
                        c.r.round_num, sid, ""))
        c2 == SaveState(c1, "feedback_applied", c1.r.session_id,
                        c1.r.round_num, c1.r.last_review_comments)
    IN IF res = "ok" THEN LoopHead(c2, c1.r.round_num + 1)
       ELSE Fail(c2, "Coder agent failed on feedback")

\* agent.apply_feedback returned, in the resumed branch (358-387) and in the
\* regular one (486-514): both save feedback_applied with
\* last_review_comments, which the regular branch set to review.comments
AfterFeedback(c, res, sid) ==
    IF res = "ok"
    THEN LET c1 == Logged([c EXCEPT !.r.session_id = Session(c, sid),
                                    !.r.pending_feedback = ""],
                          Ev("apply_ok", c.r.round_num, sid, ""))
         IN LoopHead(SaveState(c1, "feedback_applied", c1.r.session_id,
                               c1.r.round_num, c1.r.last_review_comments),
                     c1.r.round_num + 1)
    ELSE Fail(Logged(c, Ev("apply_fail", c.r.round_num, res, "")),
              "Coder agent failed on feedback")

FeedbackReturn(i) ==
    /\ run[i].pc \in {"fb", "fb_resume"}
    /\ Runnable(i)
    /\ \E res \in AgentResults, sid \in AgentSessions :
          /\ (res # "ok" => sid = "")
          /\ Commit(i, AfterFeedback(Ctx(i), res, sid))
    /\ UNCHANGED <<tree, doc, reader, topo, rev, sig, calls, pulled, notes, config, issues, plan, merged, batch, mq, wsExists, prOpen, mpc, idx, states,
                   cancelReq, outcome, abortSeen>>

Verdicts == {"approved", "changes-requested", "error"}

\* a review whose error verdict is handled like a request for changes
AfterReviewErrorGoesOn(c, verdict, comments) ==
    LET c1 == Logged([c EXCEPT !.r.review_history = Append(@, verdict)],
                     Ev("review_ret", c.r.round_num, verdict, comments))
    IN CASE verdict = "approved" -> Finally([c1 EXCEPT !.r.status = "approved"])
         [] OTHER ->
              Proceed(SaveState([c1 EXCEPT !.r.last_review_comments = comments],
                                "reviewed", c1.r.session_id, c1.r.round_num,
                                comments),
                      "fb")

\* reviewer.review returned (403-470)
AfterReview(c, verdict, comments) ==
    LET c1 == Logged([c EXCEPT !.r.review_history = Append(@, verdict)],
                     Ev("review_ret", c.r.round_num, verdict, comments))
    IN CASE verdict = "approved" -> Finally([c1 EXCEPT !.r.status = "approved"])
         [] verdict = "error" -> Fail(c1, "Reviewer error")
         [] OTHER ->
              Proceed(SaveState([c1 EXCEPT !.r.last_review_comments = comments],
                                "reviewed", c1.r.session_id, c1.r.round_num,
                                comments),
                      "fb")

ReviewReturn(i) ==
    /\ run[i].pc = "review"
    /\ Runnable(i)
    /\ \E verdict \in Verdicts, empty \in BOOLEAN :
          /\ (verdict # "changes-requested" => empty)
          /\ Commit(i, AfterReview(Ctx(i), verdict,
                       IF empty THEN "" ELSE FreshComments(run[i].round_num)))
    /\ UNCHANGED <<tree, doc, reader, topo, rev, sig, calls, pulled, notes, config, issues, plan, merged, batch, mq, wsExists, prOpen, mpc, idx, states,
                   cancelReq, outcome, abortSeen>>

\* a cleanup whose failure is recorded in the state
AfterCleanupMarksFailed(c) ==
    Logged([c EXCEPT !.r.pc = "done", !.r.res = "state", !.r.status = "failed"],
           Ev("remove_worktree", 0, "", ""))

\* remove_worktree returned, inside the finally clause; then `return state`
AfterCleanup(c) ==
    Logged([c EXCEPT !.r.pc = "done", !.r.res = "state"],
           Ev("remove_worktree", 0, "", ""))

CleanupReturn(i) ==
    /\ run[i].pc = "cleanup"
    /\ Runnable(i)
    /\ wsExists' = [wsExists EXCEPT ![issues[i]] = FALSE]
    /\ Commit(i, AfterCleanup(Ctx(i)))
    /\ UNCHANGED <<tree, doc, reader, topo, rev, sig, calls, pulled, notes, config, issues, plan, merged, batch, mq, prOpen, mpc, idx, states, cancelReq,
                   outcome, abortSeen>>

\* ------------------------------------------------------------ user abort
\* a handler that cancels the pipeline tasks and leaves the task awaiting
\* gather alone
SigintSparesMain ==
    /\ \E i \in 1..Len(issues) : run[i].pc \in StreamPcs
    /\ LiveTasks \ cancelReq # {}
    /\ cancelReq' = LiveTasks \ {0}
    /\ abortSeen' = TRUE
    /\ UNCHANGED <<tree, doc, reader, topo, rev, sig, calls, pulled, notes, config, issues, plan, merged, batch, mq, wsExists, ckpt,
                   prOpen, run, log, mpc, idx, states, outcome>>

\* Ctrl+C while a run_streaming call has its handler installed (stream.py
\* 188-201): every task of the loop is cancelled
Sigint ==
    /\ \E i \in 1..Len(issues) : run[i].pc \in StreamPcs
    /\ LiveTasks \ cancelReq # {}
    /\ cancelReq' = LiveTasks
    /\ abortSeen' = TRUE
    /\ UNCHANGED <<tree, doc, reader, topo, rev, sig, calls, pulled, notes, config, issues, plan, merged, batch, mq, wsExists, ckpt,
                   prOpen, run, log, mpc, idx, states, outcome>>

\* CancelledError arrives inside run_streaming, which raises
\* KeyboardInterrupt (stream.py 256-264); run_pipeline catches it
CancelledInStream(i) ==
    /\ run[i].pc \in StreamPcs
    /\ TaskOf(i) \in cancelReq
    /\ cancelReq' = cancelReq \ {TaskOf(i)}
    /\ Commit(i, OnKeyboardInterrupt(Ctx(i)))
    /\ UNCHANGED <<tree, doc, reader, topo, rev, sig, calls, pulled, notes, config, issues, plan, merged, batch, mq, wsExists, prOpen,
                   mpc, idx, states, outcome, abortSeen>>

\* CancelledError arrives in a pipeline task at an await outside
\* run_streaming, or at the semaphore: no handler of run_pipeline catches it
\* (it is a BaseException), the finally clause finds nothing to clean up or
\* is itself interrupted, and the task ends cancelled
CancelledAtAwait(i) ==
    /\ mpc = "gather"
    /\ run[i].pc \notin StreamPcs \cup {"idle", "done"}
    /\ i \in cancelReq
    /\ cancelReq' = cancelReq \ {i}
    /\ run' = [run EXCEPT ![i].pc = "done", ![i].res = "cancelled"]
    /\ UNCHANGED <<tree, doc, reader, topo, rev, sig, calls, pulled, notes, config, issues, plan, merged, batch, mq, wsExists, ckpt,
                   prOpen, log, mpc, idx, states, outcome, abortSeen>>

\* ------------------------------------------------------------ dispatcher
\* the PipelineState a run hands back
StateOf(i) == [slug |-> issues[i], status |-> run[i].status,
               error |-> run[i].error, pr |-> run[i].pr]

\* PipelineState(issue_slug=..., status=MERGED, pr=pr) of _already_merged
MergedState(i) == [slug |-> issues[i], status |-> "merged", error |-> "",
                   pr |-> TRUE]

\* the state _run_parallel makes up for a task that ended with an exception
RaisedState(i) == [slug |-> issues[i], status |-> "failed", error |-> "",
                   pr |-> FALSE]

Strategies == {"skip", "auto", "wait"}

\* _merge_step returns at once: strategy skip, or the state has no PR
NoMerge(st) == config.merge_strategy = "skip" \/ ~st.pr

Mergeable(st) == st.status = "approved" /\ ~NoMerge(st)

SuccessStatuses == {"merged", "approved"}

\* _run_sequential: the head of `for idx, issue in enumerate(issues, 1)`
SeqStep ==
    /\ mpc = "seq_loop"
    /\ \/ /\ idx <= Len(issues)
          /\ Commit(idx, BeginRun(idx))
          /\ mpc' = "seq_run"
          /\ UNCHANGED outcome
       \/ /\ idx > Len(issues)
          /\ mpc' = "end"
          /\ outcome' = "returned"
          /\ UNCHANGED <<run, log, ckpt>>
    /\ UNCHANGED <<tree, doc, reader, topo, rev, sig, calls, pulled, notes, config, issues, plan, merged, batch, mq, wsExists, prOpen,
                   idx, states, cancelReq, abortSeen>>

\* a sequential loop that goes on to the next issue without the merge step
SeqCollectNoMerge ==
    /\ mpc = "seq_run"
    /\ run[idx].pc = "done"
    /\ states' = Append(states, StateOf(idx))
    /\ mq' = Len(states) + 1
    /\ mpc' = "seq_loop"
    /\ idx' = idx + 1
    /\ UNCHANGED <<tree, doc, reader, topo, rev, sig, calls, pulled, notes, config, issues, plan, merged, batch, wsExists, ckpt,
                   prOpen, run, log, cancelReq, outcome, abortSeen>>

\* run_pipeline returned to _run_sequential (60-70)
SeqCollect ==
    /\ mpc = "seq_run"
    /\ run[idx].pc = "done"
    /\ states' = Append(states, StateOf(idx))
    /\ mq' = Len(states) + 1
    /\ IF Mergeable(StateOf(idx))
       THEN mpc' = "seq_merge" /\ UNCHANGED idx
       ELSE mpc' = "seq_loop" /\ idx' = idx + 1
    /\ UNCHANGED <<tree, doc, reader, topo, rev, sig, calls, pulled, notes, config, issues, plan, merged, batch, wsExists, ckpt,
                   prOpen, run, log, cancelReq, outcome, abortSeen>>

\* _update_main: git fetch, then git merge --ff-only, whose failure is only
\* reported as a warning (121-140)
UpdateMain(slug, ok) == pulled' = Append(pulled, [slug |-> slug, ok |-> ok])

\* merge_pr / poll_pr_merged returned and the state becomes MERGED, or gh
\* failed with RuntimeError, which no dispatcher catches (84-118)
MergeReturn ==
    /\ mpc \in {"seq_merge", "epic_merge", "parent_merge"}
    /\ \/ /\ states' = [states EXCEPT ![mq].status = "merged"]
          /\ merged' = [merged EXCEPT ![states[mq].slug] = TRUE]
          /\ \E ok \in BOOLEAN : UpdateMain(states[mq].slug, ok)
          /\ CASE mpc = "seq_merge" ->
                    mpc' = "seq_loop" /\ idx' = idx + 1 /\ mq' = mq
                    /\ UNCHANGED outcome
               [] mpc = "epic_merge" ->
                    mpc' = "epic_merges" /\ mq' = mq + 1
                    /\ UNCHANGED <<idx, outcome>>
               [] mpc = "parent_merge" ->
                    mpc' = "end" /\ outcome' = "returned"
                    /\ UNCHANGED <<idx, mq>>
       \/ /\ mpc' = "end"
          /\ outcome' = "error"
          /\ UNCHANGED <<states, merged, idx, mq, pulled>>
    /\ UNCHANGED <<tree, doc, reader, topo, rev, sig, calls, notes, config, issues, plan, batch, wsExists, ckpt, prOpen, run,
                   log, cancelReq, abortSeen>>

\* _run_parallel up to the gather: one task per issue, each waiting at the
\* semaphore (151-165)
GateRun == [IdleRun EXCEPT !.pc = "gate"]

ParStart ==
    /\ mpc = "par_start"
    /\ batch' = [k \in 1..Len(issues) |-> k]
    /\ run' = [i \in Slots |-> IF i <= Len(issues) THEN GateRun ELSE run[i]]
    /\ mpc' = "gather"
    /\ UNCHANGED <<tree, doc, reader, topo, rev, sig, calls, pulled, notes, config, issues, plan, merged, mq, wsExists, ckpt, prOpen,
                   log, idx, states, cancelReq, outcome, abortSeen>>

\* a gate that lets a waiting task in without looking at the permits
GateAcquireNoLimit(i) ==
    /\ mpc = "gather"
    /\ run[i].pc = "gate"
    /\ i \notin cancelReq
    /\ \A j \in Range(batch) : run[j].pc = "gate" /\ j \notin cancelReq => i <= j
    /\ Commit(i, BeginRun(i))
    /\ UNCHANGED <<tree, doc, reader, topo, rev, sig, calls, pulled, notes, config, issues, plan, merged, batch, mq, wsExists, prOpen,
                   mpc, idx, states, cancelReq, outcome, abortSeen>>

\* `async with semaphore:` is entered by the longest-waiting task when a
\* permit is free; run_pipeline starts (153-155)
GateAcquire(i) ==
    /\ mpc = "gather"
    /\ run[i].pc = "gate"
    /\ i \notin cancelReq
    /\ Cardinality(Holders) < config.parallel_workers
    /\ \A j \in Range(batch) : run[j].pc = "gate" /\ j \notin cancelReq => i <= j
    /\ Commit(i, BeginRun(i))
    /\ UNCHANGED <<tree, doc, reader, topo, rev, sig, calls, pulled, notes, config, issues, plan, merged, batch, mq, wsExists, prOpen,
                   mpc, idx, states, cancelReq, outcome, abortSeen>>

\* the results loop of _run_parallel (171-191)
Results ==
    [k \in 1..Len(batch) |->
        IF run[batch[k]].res = "state" THEN StateOf(batch[k])
        ELSE RaisedState(batch[k])]

\* a collection that does not wait for every task: it goes on as soon as one
\* task of the batch is done
ParCollectEarly ==
    /\ mpc = "gather"
    /\ \E i \in Range(batch) : run[i].pc = "done"
    /\ IF 0 \in cancelReq
       THEN /\ outcome' = "abort"
            /\ mpc' = "end"
            /\ cancelReq' = {}
            /\ UNCHANGED <<states, mq>>
       ELSE /\ states' = states \o Results
            /\ UNCHANGED cancelReq
            /\ IF config.mode = "epic"
               THEN mpc' = "epic_merges" /\ UNCHANGED <<outcome, mq>>
               ELSE mpc' = "end" /\ outcome' = "returned" /\ UNCHANGED mq
    /\ UNCHANGED <<tree, doc, reader, topo, rev, sig, calls, pulled, notes, config, issues, plan, merged, batch, wsExists, ckpt, prOpen,
                   run, log, idx, abortSeen>>

\* gather is over.  Cancelled: the CancelledError branch raises
\* KeyboardInterrupt at once (166-169).  Otherwise the results are
\* collected and returned (171-198), to the caller or to run_epic_plan.
ParCollect ==
    /\ mpc = "gather"
    /\ \A i \in Range(batch) : run[i].pc = "done"
    /\ IF 0 \in cancelReq
       THEN /\ outcome' = "abort"
            /\ mpc' = "end"
            /\ cancelReq' = {}
            /\ UNCHANGED <<states, mq>>
       ELSE /\ states' = states \o Results
            /\ UNCHANGED cancelReq
            /\ IF config.mode = "epic"
               THEN mpc' = "epic_merges" /\ UNCHANGED <<outcome, mq>>
               ELSE mpc' = "end" /\ outcome' = "returned" /\ UNCHANGED mq
    /\ UNCHANGED <<tree, doc, reader, topo, rev, sig, calls, pulled, notes, config, issues, plan, merged, batch, wsExists, ckpt, prOpen,
                   run, log, idx, abortSeen>>

AlreadyMerged(i) == merged[issues[i]]
\* a pending filter that keeps the members that are already merged too
NotYetMergedAll(i) == TRUE

NotYetMerged(i) == ~merged[issues[i]]

MergedStates(g) == [k \in 1..Len(g) |-> MergedState(g[k])]

\* run_epic_plan: the head of the group loop; the already-merged members
\* are skipped, the pending ones run alone or in parallel (218-250)
EpicGroup ==
    /\ mpc = "epic_loop"
    /\ IF idx > Len(plan.groups)
       THEN /\ mpc' = "epic_parent"
            /\ UNCHANGED <<states, batch, mq, idx, run, log, ckpt>>
       ELSE LET skipped == SelectSeq(plan.groups[idx], AlreadyMerged)
                pending == SelectSeq(plan.groups[idx], NotYetMerged)
            IN /\ states' = states \o MergedStates(skipped)
               /\ mq' = Len(states) + 1
               /\ batch' = pending
               /\ IF pending = <<>>
                  THEN /\ idx' = idx + 1
                       /\ UNCHANGED <<mpc, run, log, ckpt>>
                  ELSE IF Len(pending) = 1
                  THEN /\ Commit(pending[1], BeginRun(pending[1]))
                       /\ mpc' = "epic_run"
                       /\ UNCHANGED idx
                  ELSE /\ run' = [i \in Slots |->
                                    IF i \in Range(pending) THEN GateRun
                                    ELSE run[i]]
                       /\ mpc' = "gather"
                       /\ UNCHANGED <<idx, log, ckpt>>
    /\ UNCHANGED <<tree, doc, reader, topo, rev, sig, calls, pulled, notes, config, issues, plan, merged, wsExists, prOpen, cancelReq,
                   outcome, abortSeen>>

\* the single pending member's run_pipeline returned (248)
EpicCollect ==
    /\ mpc = "epic_run"
    /\ run[batch[1]].pc = "done"
    /\ states' = Append(states, StateOf(batch[1]))
    /\ mpc' = "epic_merges"
    /\ UNCHANGED <<tree, doc, reader, topo, rev, sig, calls, pulled, notes, config, issues, plan, merged, batch, mq, wsExists, ckpt,
                   prOpen, run, log, idx, cancelReq, outcome, abortSeen>>

\* a group loop that goes on to the failure check without merging
EpicMergesNoMerge ==
    /\ mpc = "epic_merges"
    /\ mq' = Len(states) + 1
    /\ IF \E k \in DOMAIN states : states[k].status \notin SuccessStatuses
       THEN mpc' = "epic_parent" /\ UNCHANGED idx
       ELSE mpc' = "epic_loop" /\ idx' = idx + 1
    /\ UNCHANGED <<tree, doc, reader, topo, rev, sig, calls, pulled, notes, config, issues, plan, merged, batch, wsExists, ckpt, prOpen,
                   run, log, states, cancelReq, outcome, abortSeen>>

\* the merge loop over the group's states, then the failure check (256-271)
EpicMerges ==
    /\ mpc = "epic_merges"
    /\ LET todo == {k \in mq..Len(states) : Mergeable(states[k])}
       IN IF todo # {}
          THEN /\ mq' = CHOOSE k \in todo : \A j \in todo : k <= j
               /\ mpc' = "epic_merge"
               /\ UNCHANGED idx
          ELSE /\ mq' = Len(states) + 1
               /\ IF \E k \in DOMAIN states : states[k].status \notin SuccessStatuses
                  THEN mpc' = "epic_parent" /\ UNCHANGED idx
                  ELSE mpc' = "epic_loop" /\ idx' = idx + 1
    /\ UNCHANGED <<tree, doc, reader, topo, rev, sig, calls, pulled, notes, config, issues, plan, merged, batch, wsExists, ckpt, prOpen,
                   run, log, states, cancelReq, outcome, abortSeen>>

\* a parent step that does not look at the children's states
EpicParentAlways ==
    /\ mpc = "epic_parent"
    /\ IF AlreadyMerged(plan.parent)
       THEN /\ states' = Append(states, MergedState(plan.parent))
            /\ mpc' = "end"
            /\ outcome' = "returned"
            /\ UNCHANGED <<run, log, ckpt>>
       ELSE /\ Commit(plan.parent, BeginRun(plan.parent))
            /\ mpc' = "parent_run"
            /\ UNCHANGED <<states, outcome>>
    /\ UNCHANGED <<tree, doc, reader, topo, rev, sig, calls, pulled, notes, config, issues, plan, merged, batch, mq, wsExists, prOpen,
                   idx, cancelReq, abortSeen>>

\* after the groups: the parent issue runs if every child succeeded (273-294)
EpicParent ==
    /\ mpc = "epic_parent"
    /\ IF \E k \in DOMAIN states : states[k].status \notin SuccessStatuses
       THEN /\ mpc' = "end"
            /\ outcome' = "returned"
            /\ UNCHANGED <<states, run, log, ckpt>>
       ELSE IF AlreadyMerged(plan.parent)
       THEN /\ states' = Append(states, MergedState(plan.parent))
            /\ mpc' = "end"
            /\ outcome' = "returned"
            /\ UNCHANGED <<run, log, ckpt>>
       ELSE /\ Commit(plan.parent, BeginRun(plan.parent))
            /\ mpc' = "parent_run"
            /\ UNCHANGED <<states, outcome>>
    /\ UNCHANGED <<tree, doc, reader, topo, rev, sig, calls, pulled, notes, config, issues, plan, merged, batch, mq, wsExists, prOpen,
                   idx, cancelReq, abortSeen>>

\* the parent's run_pipeline returned (288-291)
ParentCollect ==
    /\ mpc = "parent_run"
    /\ run[plan.parent].pc = "done"
    /\ states' = Append(states, StateOf(plan.parent))
    /\ mq' = Len(states) + 1
    /\ IF Mergeable(StateOf(plan.parent))
       THEN mpc' = "parent_merge" /\ UNCHANGED outcome
       ELSE mpc' = "end" /\ outcome' = "returned"
    /\ UNCHANGED <<tree, doc, reader, topo, rev, sig, calls, pulled, notes, config, issues, plan, merged, batch, wsExists, ckpt, prOpen,
                   run, log, idx, cancelReq, abortSeen>>

\* the exit status of the corbit process (cli.py 199-208)
ExitCode ==
    CASE outcome = "abort" -> 130
      [] outcome = "returned" ->
            IF \E k \in DOMAIN states : states[k].status = "failed" THEN 1 ELSE 0
      [] OTHER -> 1

\* --------------------------------------------------------- run_streaming
\* Several run_streaming calls of one event loop.  A call owns a subprocess
\* started in a session of its own: `leader` is the process itself (the
\* code's proc.returncode is None while it lives), `others` says that the
\* process group holds further live processes (they keep the pipes open).
Calls == 1..MaxCalls

IdleCall == [pc |-> "idle", original_handler |-> "orig", cancelled |-> FALSE,
             sigint_received |-> FALSE, leader |-> FALSE, others |-> FALSE,
             result |-> "none", owed |-> FALSE, returncode |-> 0,
             ret |-> 0]

\* proc.returncode once the process has ended: an exit code, or minus the
\* number of the signal that killed it (SIGHUP is 1)
ExitStatuses == {0, 1, -1}
SIGTERM == 15
SIGKILL == 9

\* signal.getsignal(SIGINT) is the interpreter's handler and the loop has
\* no handler of its own
NoHandler == [loop |-> 0, os |-> "orig"]

InFlight == {c \in Calls : calls[c].pc = "running"}

\* os.killpg(os.getpgid(proc.pid), ...) if proc.returncode is None
KillGroup(cl, signum) ==
    IF cl.leader
    THEN [cl EXCEPT !.leader = FALSE, !.others = FALSE,
                    !.returncode = -signum]
    ELSE cl

\* the subprocess is created, original_handler is read and
\* loop.add_signal_handler installs this call's _handle_sigint, which puts
\* asyncio's no-op handler into signal.signal (171-201)
StreamStart(c) ==
    /\ calls[c].pc = "idle"
    /\ \E grp \in BOOLEAN :
          calls' = [calls EXCEPT ![c] =
                      [IdleCall EXCEPT !.pc = "running", !.leader = TRUE,
                                       !.others = grp,
                                       !.original_handler = sig.os]]
    /\ sig' = [loop |-> c, os |-> "noop"]
    /\ UNCHANGED dvars

\* SIGINT arrives while calls are in flight.  With a handler in the loop,
\* that call's _handle_sigint runs (188-199): it terminates its own process
\* group and cancels every task.  With asyncio's no-op handler left in
\* signal.signal and no handler in the loop, nothing happens.  With the
\* interpreter's handler the main task is cancelled, and with it the tasks
\* it awaits.
SigintArrives ==
    /\ \E c \in InFlight : ~calls[c].owed
    /\ calls' = [c \in Calls |->
          IF c \notin InFlight THEN calls[c]
          ELSE LET o == [calls[c] EXCEPT !.owed = TRUE] IN
               IF sig.loop # 0
               THEN IF c = sig.loop
                    THEN [KillGroup(o, SIGTERM) EXCEPT !.sigint_received = TRUE,
                                              !.cancelled = TRUE]
                    ELSE [o EXCEPT !.cancelled = TRUE]
               ELSE IF sig.os = "noop" THEN o
               ELSE [o EXCEPT !.cancelled = TRUE]]
    /\ UNCHANGED <<sig, dvars>>

\* the finally clause: loop.remove_signal_handler(SIGINT), whichever call
\* installed the handler, then signal.signal(SIGINT, original_handler)
\* (265-271); the call is over with result res
Finish(c, cl, res) ==
    /\ calls' = [calls EXCEPT ![c] = [cl EXCEPT !.pc = "done", !.result = res]]
    /\ sig' = [loop |-> 0, os |-> cl.original_handler]

\* the process exits by itself
LeaderExit(c) ==
    /\ calls[c].pc = "running"
    /\ calls[c].leader
    /\ \E rc \in ExitStatuses :
          calls' = [calls EXCEPT ![c].leader = FALSE, ![c].returncode = rc]
    /\ UNCHANGED <<sig, dvars>>

\* the rest of the process group exits and closes the pipes
OthersExit(c) ==
    /\ calls[c].pc = "running"
    /\ calls[c].others
    /\ calls' = [calls EXCEPT ![c].others = FALSE]
    /\ UNCHANGED <<sig, dvars>>

\* the check after the finally clause with only the handler's flag
StreamReturnIgnoresSignal(c) ==
    /\ calls[c].pc = "running"
    /\ ~calls[c].cancelled
    /\ ~calls[c].leader
    /\ ~calls[c].others
    /\ IF calls[c].sigint_received
       THEN Finish(c, calls[c], "abort")
       ELSE Finish(c, [calls[c] EXCEPT !.ret = calls[c].returncode], "result")
    /\ UNCHANGED dvars

\* gather(_read_stdout, _read_stderr, proc.wait) is done: both pipes are at
\* EOF and the process has exited (243-247); KeyboardInterrupt if the handler
\* ran or a signal killed the process, else the result (273-281)
StreamReturn(c) ==
    /\ calls[c].pc = "running"
    /\ ~calls[c].cancelled
    /\ ~calls[c].leader
    /\ ~calls[c].others
    /\ IF calls[c].sigint_received \/ calls[c].returncode < 0
       THEN Finish(c, calls[c], "abort")
       ELSE Finish(c, [calls[c] EXCEPT !.ret = calls[c].returncode], "result")
    /\ UNCHANGED dvars

\* asyncio.TimeoutError: proc.kill(), which signals the process only, and
\* the result with returncode -1 (248-255)
StreamTimeout(c) ==
    /\ calls[c].pc = "running"
    /\ ~calls[c].cancelled
    /\ Finish(c, [calls[c] EXCEPT
                    !.leader = FALSE,
                    !.returncode = IF calls[c].leader THEN -SIGKILL ELSE @,
                    !.ret = -1],
              "timeout")
    /\ UNCHANGED dvars

\* asyncio.CancelledError: the group is killed if the process still runs,
\* then KeyboardInterrupt is raised (256-264)
StreamCancelled(c) ==
    /\ calls[c].pc = "running"
    /\ calls[c].cancelled
    /\ Finish(c, KillGroup(calls[c], SIGKILL), "abort")
    /\ UNCHANGED dvars

\* ------------------------------------------------------- initial states
\* checkpoints an earlier run can have left in the worktree
SavedSessions == {"", "old"}
SavedComments == {"", "saved"}

OldCkpts ==
    {[step |-> "implemented", session_id |-> sid, review_round |-> 0,
      review_comments |-> ""] : sid \in SavedSessions}
    \cup
    [step : {"reviewed", "feedback_applied"}, session_id : SavedSessions,
     review_round : 1..(MaxRounds + 1), review_comments : SavedComments]

Configs(modes, rounds, workers) ==
    [mode : modes, max_review_rounds : rounds,
     iteration_mode : {"full", "single-pass"}, debug : BOOLEAN,
     merge_strategy : Strategies, parallel_workers : workers]

NoPlan == [groups |-> <<>>, parent |-> 0]

\* no dependency map is being grouped, no reviewer output being parsed
NoTopo == [pc |-> "off"]
NoRev == [pc |-> "off"]
NoTree == [pc |-> "off"]
NoDoc == [pc |-> "off"]
NoReader == [pc |-> "off"]

\* no run, no dispatcher state, no agent call yet
InitRuns ==
    /\ run = [i \in Slots |-> IdleRun]
    /\ log = [i \in Slots |-> <<>>]
    /\ idx = 1
    /\ states = <<>>
    /\ batch = <<>>
    /\ mq = 0
    /\ cancelReq = {}
    /\ outcome = "running"
    /\ abortSeen = FALSE
    /\ sig = NoHandler
    /\ calls = [c \in Calls |-> IdleCall]
    /\ pulled = <<>>
    /\ notes = [i \in Slots |-> FALSE]

\* what every start of a dispatcher has in common
InitCommon ==
    /\ InitRuns
    /\ topo = NoTopo
    /\ rev = NoRev
    /\ tree = NoTree
    /\ doc = NoDoc
    /\ reader = NoReader

\* no dispatcher is running: the state the pure functions are called in
AtRest ==
    /\ config = [mode |-> "epic", max_review_rounds |-> 1,
                 iteration_mode |-> "full", debug |-> FALSE,
                 merge_strategy |-> "skip", parallel_workers |-> 1]
    /\ issues = <<>>
    /\ plan = NoPlan
    /\ merged = [s \in Slugs |-> FALSE]
    /\ wsExists = [s \in Slugs |-> FALSE]
    /\ ckpt = [s \in Slugs |-> NoCkpt]
    /\ prOpen = [s \in Slugs |-> FALSE]
    /\ mpc = "end"
    /\ InitRuns

\* one issue, dispatched sequentially, found in any state an earlier run
\* can have left it in
Init ==
    /\ config \in Configs({"sequential"}, 1..MaxRounds, {1})
    /\ issues = <<1>>
    /\ plan = NoPlan
    /\ merged = [s \in Slugs |-> FALSE]
    /\ \E ws \in BOOLEAN, pr \in BOOLEAN, ck \in OldCkpts \cup {NoCkpt} :
          /\ (~ws => ck = NoCkpt)
          /\ wsExists = [s \in Slugs |-> s = 1 /\ ws]
          /\ ckpt = [s \in Slugs |-> IF s = 1 THEN ck ELSE NoCkpt]
          /\ prOpen = [s \in Slugs |-> s = 1 /\ pr]
    /\ mpc = "seq_loop"
    /\ InitCommon

Next ==
    \/ \E i \in Slots : DebugAnswer(i)
    \/ \E i \in Slots : WorktreeReady(i)
    \/ \E i \in Slots : ImplementReturn(i)
    \/ \E i \in Slots : PrKnown(i)
    \/ \E i \in Slots : RebaseReturn(i)
    \/ \E i \in Slots : FeedbackReturn(i)
    \/ \E i \in Slots : ReviewReturn(i)
    \/ \E i \in Slots : CleanupReturn(i)
    \/ \E i \in Slots : CancelledInStream(i)
    \/ Sigint
    \/ SeqStep
    \/ SeqCollect
    \/ MergeReturn

Spec == Init /\ [][Next]_vars

\* several issues, fresh, dispatched in each of the three modes; the lists
\* include ones that name a slug twice.  The scenarios with three tasks in
\* flight are run with the short pipeline (single-pass).
Short == {"single-pass"}
Both == {"full", "single-pass"}

Scenarios ==
    {[mode |-> "sequential", issues |-> <<1, 2>>, plan |-> NoPlan,
      iteration |-> Both, debug |-> BOOLEAN],
     [mode |-> "parallel", issues |-> <<1, 2, 3>>, plan |-> NoPlan,
      iteration |-> Short, debug |-> {FALSE}],
     [mode |-> "parallel", issues |-> <<1, 1>>, plan |-> NoPlan,
      iteration |-> Both, debug |-> BOOLEAN],
     [mode |-> "epic", issues |-> <<1, 2, 3>>,
      plan |-> [groups |-> <<<<1, 2>>>>, parent |-> 3],
      iteration |-> Short, debug |-> BOOLEAN],
     [mode |-> "epic", issues |-> <<1, 2, 3>>,
      plan |-> [groups |-> <<<<1>>, <<2>>>>, parent |-> 3],
      iteration |-> Both, debug |-> BOOLEAN],
     [mode |-> "epic", issues |-> <<1, 1, 2>>,
      plan |-> [groups |-> <<<<1, 2>>>>, parent |-> 3],
      iteration |-> Short, debug |-> {FALSE}],
     [mode |-> "epic", issues |-> <<1, 2, 3, 4>>,
      plan |-> [groups |-> <<<<1, 2>>, <<3>>>>, parent |-> 4],
      iteration |-> Short, debug |-> {FALSE}]}

DispatchInit ==
    /\ \E sc \in Scenarios :
          /\ Len(sc.issues) <= MaxIssues
          /\ Range(sc.issues) \subseteq Slugs
          /\ issues = sc.issues
          /\ plan = sc.plan
          /\ config \in Configs({sc.mode}, {1}, 1..MaxWorkers)
          /\ config.iteration_mode \in sc.iteration
          /\ config.debug \in sc.debug
          /\ (sc.mode = "sequential" => config.parallel_workers = 1)
          /\ (sc.mode = "parallel" => config.merge_strategy = "skip")
          /\ mpc = CASE sc.mode = "sequential" -> "seq_loop"
                     [] sc.mode = "parallel" -> "par_start"
                     [] OTHER -> "epic_loop"
          /\ \E m \in BOOLEAN :
                merged = [s \in Slugs |-> s = 1 /\ m /\ sc.mode = "epic"]
    /\ wsExists = [s \in Slugs |-> FALSE]
    /\ ckpt = [s \in Slugs |-> NoCkpt]
    /\ prOpen = [s \in Slugs |-> FALSE]
    /\ InitCommon

DispatchNext ==
    \/ Next
    \/ \E i \in Slots : CancelledAtAwait(i)
    \/ \E i \in Slots : GateAcquire(i)
    \/ ParStart
    \/ ParCollect
    \/ EpicGroup
    \/ EpicCollect
    \/ EpicMerges
    \/ EpicParent
    \/ ParentCollect

DispatchSpec == DispatchInit /\ [][DispatchNext]_vars

\* _run_parallel on its own: three issues through the short pipeline, two
\* through the full one, fresh worktrees, any number of workers
ParScenarios ==
    {[issues |-> <<1, 2, 3>>, iteration |-> Short, debug |-> {FALSE}],
     [issues |-> <<1, 2>>, iteration |-> Both, debug |-> BOOLEAN]}

ParInit ==
    /\ \E sc \in ParScenarios :
          /\ issues = sc.issues
          /\ config \in Configs({"parallel"}, {1}, 1..MaxWorkers)
          /\ config.iteration_mode \in sc.iteration
          /\ config.debug \in sc.debug
          /\ config.merge_strategy = "skip"
    /\ plan = NoPlan
    /\ mpc = "par_start"
    /\ merged = [s \in Slugs |-> FALSE]
    /\ wsExists = [s \in Slugs |-> FALSE]
    /\ ckpt = [s \in Slugs |-> NoCkpt]
    /\ prOpen = [s \in Slugs |-> FALSE]
    /\ InitCommon

\* the steps of the event loop that are no Ctrl+C: a task that can go on
\* does, an invocation returns, a prompt is answered
ParProgress ==
    \/ \E i \in Slots : DebugAnswer(i)
    \/ \E i \in Slots : WorktreeReady(i)
    \/ \E i \in Slots : ImplementReturn(i)
    \/ \E i \in Slots : PrKnown(i)
    \/ \E i \in Slots : RebaseReturn(i)
    \/ \E i \in Slots : FeedbackReturn(i)
    \/ \E i \in Slots : ReviewReturn(i)
    \/ \E i \in Slots : CleanupReturn(i)
    \/ \E i \in Slots : CancelledInStream(i)
    \/ \E i \in Slots : CancelledAtAwait(i)
    \/ \E i \in Slots : GateAcquire(i)
    \/ ParStart
    \/ ParCollect

ParNext ==
    \/ ParProgress
    \/ Sigint

\* the event loop keeps running: every invocation ends, with its result or
\* at its timeout, and every prompt is answered
ParSpec == ParInit /\ [][ParNext]_vars /\ WF_vars(ParProgress)

\* run_streaming calls on their own: no dispatcher is running
StreamInit ==
    /\ config \in Configs({"parallel"}, {1}, {MaxWorkers})
    /\ config.iteration_mode = "full"
    /\ config.merge_strategy = "skip"
    /\ ~config.debug
    /\ issues = <<>>
    /\ plan = NoPlan
    /\ merged = [s \in Slugs |-> FALSE]
    /\ wsExists = [s \in Slugs |-> FALSE]
    /\ ckpt = [s \in Slugs |-> NoCkpt]
    /\ prOpen = [s \in Slugs |-> FALSE]
    /\ mpc = "end"
    /\ InitCommon

StreamNext ==
    \/ \E c \in Calls : StreamStart(c)
    \/ \E c \in Calls : LeaderExit(c)
    \/ \E c \in Calls : OthersExit(c)
    \/ \E c \in Calls : StreamReturn(c)
    \/ \E c \in Calls : StreamTimeout(c)
    \/ \E c \in Calls : StreamCancelled(c)
    \/ SigintArrives

StreamSpec == StreamInit /\ [][StreamNext]_vars

\* run_streaming with two invocations, one after or beside the other
ExitCalls == {c \in Calls : c <= 2}

ExitNext ==
    \/ \E c \in ExitCalls : StreamStart(c)
    \/ \E c \in ExitCalls : LeaderExit(c)
    \/ \E c \in ExitCalls : OthersExit(c)
    \/ \E c \in ExitCalls : StreamReturn(c)
    \/ \E c \in ExitCalls : StreamTimeout(c)
    \/ \E c \in ExitCalls : StreamCancelled(c)
    \/ SigintArrives

ExitSpec == StreamInit /\ [][ExitNext]_vars

\* the event loop keeps running, invocations return (each is bounded by its
\* timeout) and prompts are answered
LiveSpec == Spec /\ WF_vars(Next)

\* ------------------------------------------------------- history helpers
Count(i, e) == Cardinality({k \in DOMAIN log[i] : log[i][k].ev = e})
Has(i, e) == \E k \in DOMAIN log[i] : log[i][k].ev = e
Ended(i) == run[i].pc = "done"

\* C3: in full iteration mode the reviewer is invoked at most
\* max_review_rounds times, current_round never exceeds max_review_rounds,
\* and the run reaches a terminal state, whatever checkpoint it starts from.
C3_BoundedReviewLoop ==
    /\ [](config.iteration_mode = "full" =>
            /\ Count(1, "review") <= config.max_review_rounds
            /\ run[1].current_round <= config.max_review_rounds)
    /\ <>(Ended(1))

C3_Witness ==
    /\ Ended(1)
    /\ config.iteration_mode = "full"
    /\ config.max_review_rounds = MaxRounds
    /\ Count(1, "review") = MaxRounds
    /\ run[1].current_round = MaxRounds
    /\ run[1].error = ExhaustedText(config.max_review_rounds)

\* C4: after a changes-requested review of round n with findings F the
\* history continues with exactly: save reviewed (n, F), apply_feedback (F),
\* its result, save feedback_applied (n, F) only on success, then the review
\* of round n + 1; only an abort, a failed apply_feedback or the round limit
\* cuts the sequence short.  After an approved or error verdict there is no
\* further coder call and no further checkpoint write, and the run ends.
C4_RoundOrder ==
    LET lg == log[1]
        N == Len(lg)
        r == run[1]
    IN \A k \in DOMAIN lg :
         lg[k].ev = "review_ret" =>
           IF lg[k].x = "changes-requested"
           THEN LET n == lg[k].n
                    F == lg[k].c
                IN /\ k + 1 <= N
                   /\ lg[k + 1] = Ev("save", n, "reviewed", F)
                   /\ (k + 2 <= N => /\ lg[k + 2].ev = "apply_feedback"
                                     /\ lg[k + 2].n = n
                                     /\ lg[k + 2].c = F)
                   /\ (k + 3 <= N => /\ lg[k + 3].ev \in {"apply_ok", "apply_fail"}
                                     /\ lg[k + 3].n = n)
                   /\ (k + 3 <= N /\ lg[k + 3].ev = "apply_ok" =>
                          /\ k + 4 <= N
                          /\ lg[k + 4] = Ev("save", n, "feedback_applied", F))
                   /\ (k + 3 <= N /\ lg[k + 3].ev = "apply_fail" =>
                          /\ N = k + 3
                          /\ Ended(1)
                          /\ r.status = "failed")
                   /\ (k + 5 <= N => /\ lg[k + 5].ev = "review"
                                     /\ lg[k + 5].n = n + 1)
                   /\ (Ended(1) /\ N \in {k + 1, k + 2} =>
                          r.error = "Aborted by user")
                   /\ (Ended(1) /\ N = k + 4 =>
                          \/ r.error = "Aborted by user"
                          \/ /\ n = config.max_review_rounds
                             /\ r.error = ExhaustedText(config.max_review_rounds))
           ELSE /\ r.pc \in {"cleanup", "done"}
                /\ \A j \in (k + 1)..N : lg[j].ev \in {"unlink", "remove_worktree"}
                /\ (lg[k].x = "error" => N = k /\ r.status = "failed")
                /\ (lg[k].x = "approved" => r.status = "approved")

\* a full changes-requested round followed by the review of the next round
C4_Witness ==
    \E k \in DOMAIN log[1] :
        /\ log[1][k].ev = "review_ret"
        /\ log[1][k].x = "changes-requested"
        /\ log[1][k].c # ""
        /\ Len(log[1]) >= k + 5
        /\ log[1][k + 3].ev = "apply_ok"
        /\ log[1][k + 5].ev = "review"
        /\ log[1][k + 5].n = log[1][k].n + 1

\* C5: every checkpoint write follows the completion of the phase it names:
\* implemented after a successful implement with a known pull request,
\* reviewed (n) right after the changes-requested review of round n,
\* feedback_applied (n) right after a successful apply_feedback of round n;
\* and the file holds what the last write of the run put there.
C5_CheckpointAfterPhase ==
    LET lg == log[1]
        saves == {k \in DOMAIN lg : lg[k].ev = "save"}
    IN /\ \A k \in saves :
            /\ k > 1
            /\ lg[k].x = "implemented" =>
                  /\ lg[k - 1].ev = "implement_ok"
                  /\ run[1].pr
                  /\ prOpen[issues[1]]
            /\ lg[k].x = "reviewed" =>
                  lg[k - 1] = Ev("review_ret", lg[k].n, "changes-requested", lg[k].c)
            /\ lg[k].x = "feedback_applied" =>
                  /\ lg[k - 1].ev = "apply_ok"
                  /\ lg[k - 1].n = lg[k].n
            /\ lg[k].x \in DoneSteps
       /\ (saves # {} /\ ~Has(1, "unlink")) =>
            LET last == CHOOSE k \in saves : \A j \in saves : j <= k
            IN /\ ckpt[issues[1]].step = lg[last].x
               /\ ckpt[issues[1]].review_round = lg[last].n
               /\ ckpt[issues[1]].review_comments = lg[last].c
       /\ (Has(1, "implement_fail") \/ Has(1, "apply_fail")) =>
            /\ Ended(1)
            /\ lg[Len(lg)].ev \in {"implement_fail", "apply_fail"}

\* an apply_feedback failed or was interrupted after the reviewed checkpoint
\* was written, and the file still says reviewed
C5_Witness ==
    /\ Ended(1)
    /\ run[1].status = "failed"
    /\ Has(1, "apply_feedback")
    /\ ~Has(1, "apply_ok")
    /\ Has(1, "save")
    /\ ckpt[issues[1]].step = "reviewed"

\* a run that took the skip branch with a reviewed checkpoint of a round
\* within the limit, in full iteration mode
ResumedFromReviewed ==
    /\ config.iteration_mode = "full"
    /\ run[1].saved.step = "reviewed"
    /\ SavedRound(run[1].saved) \in 1..config.max_review_rounds
    /\ Len(log[1]) >= 2
    /\ log[1][2].ev = "skip_implement"

\* C6 as stated: a run resumed from reviewed (N, F), 1 <= N <= max, that
\* did not end by an abort or a coder failure has called apply_feedback
\* with F before any review and a review after it.  It is violated.
C6_AsStated ==
    (/\ ResumedFromReviewed
     /\ Ended(1)
     /\ run[1].error \notin {"Aborted by user", "Coder agent failed on feedback"})
    => \E k \in DOMAIN log[1] :
          /\ log[1][k].ev = "apply_feedback"
          /\ log[1][k].c = run[1].saved.review_comments
          /\ \A j \in 1..(k - 1) : log[1][j].ev # "review"
          /\ \E j \in (k + 1)..Len(log[1]) : log[1][j].ev = "review"

\* C6: a run resumed from reviewed (N, F) with 1 <= N <= max and F not
\* empty first calls apply_feedback with F in round N, before any review;
\* when that succeeds it writes feedback_applied (N) and, if N < max, next
\* requests the review of round N + 1; if N = max it ends with the rounds
\* exhausted and no review.  With F empty it reviews round N at once.
C6_ResumeReviewed ==
    LET lg == log[1]
        N == Len(lg)
        sv == run[1].saved
        n == SavedRound(sv)
        F == sv.review_comments
    IN ResumedFromReviewed =>
         IF F # ""
         THEN /\ (N >= 3 => lg[3] = Ev("apply_feedback", n, sv.session_id, F))
              /\ (N >= 4 => lg[4].ev \in {"apply_ok", "apply_fail"})
              /\ (N >= 4 /\ lg[4].ev = "apply_ok" =>
                    /\ N >= 5
                    /\ lg[5] = Ev("save", n, "feedback_applied", F)
                    /\ IF n < config.max_review_rounds
                       THEN /\ (N >= 6 => /\ lg[6].ev = "review"
                                          /\ lg[6].n = n + 1
                                          /\ lg[6].c = F)
                            /\ (N = 5 => \/ run[1].pc = "dbg_review"
                                         \/ run[1].error = "Aborted by user")
                       ELSE /\ N = 5
                            /\ Ended(1)
                            /\ run[1].error = ExhaustedText(config.max_review_rounds))
         ELSE /\ ~Has(1, "apply_feedback") \/ Has(1, "review_ret")
              /\ (N >= 3 => lg[3].ev = "review" /\ lg[3].n = n)

\* stored feedback applied, then the fresh review of the next round
C6_Witness ==
    /\ ResumedFromReviewed
    /\ run[1].saved.review_comments # ""
    /\ Len(log[1]) >= 6
    /\ log[1][3].ev = "apply_feedback"
    /\ log[1][4].ev = "apply_ok"
    /\ log[1][6].ev = "review"

\* C7: once the worktree is ready, implementation is skipped exactly when a
\* pull request was found and the loaded step is implemented, reviewed or
\* feedback_applied; a skipping run never calls implement; any other run
\* calls it once (unless the user aborts at the prompt before it), with the
\* session id recorded in the checkpoint.
C7_SkipImplementIff ==
    LET lg == log[1]
        N == Len(lg)
        skipped == N >= 2 /\ lg[2].ev = "skip_implement"
    IN run[1].worktree =>
         /\ lg[1].ev = "find_pr"
         /\ skipped <=> (lg[1].x = "found" /\ lg[1].c \in DoneSteps)
         /\ skipped => Count(1, "implement") = 0
         /\ ~skipped =>
               /\ Count(1, "implement") <= 1
               /\ Count(1, "implement") = 0 =>
                     \/ run[1].pc = "dbg_impl"
                     \/ Ended(1) /\ run[1].error = "Aborted by user" /\ N = 1
               /\ N >= 2 => lg[2] = Ev("implement", 0, run[1].saved.session_id, "")

\* a checkpoint is there but the pull request is not: implement runs again,
\* resuming the recorded session
C7_Witness ==
    /\ Len(log[1]) >= 2
    /\ log[1][1].x = "none"
    /\ log[1][1].c \in DoneSteps
    /\ log[1][2] = Ev("implement", 0, "old", "")

Active(i) == i <= Len(issues) /\ run[i].pc \notin {"idle", "gate", "done"}
ActiveSlots == {i \in Slots : Active(i)}

\* C1: in parallel mode, and in epic mode (groups with two or more pending
\* members included), at most parallel_workers tasks are inside
\* run_pipeline at any instant.
C1_GateBound ==
    config.mode \in {"parallel", "epic"} =>
        Cardinality(ActiveSlots) <= config.parallel_workers

\* the gate is full, a streaming call is in progress and a task is waiting
C1_Witness ==
    /\ mpc = "gather"
    /\ Cardinality(ActiveSlots) = config.parallel_workers
    /\ \E i \in Range(batch) : run[i].pc = "gate"
    /\ \E i \in Range(batch) : run[i].pc = "impl"

\* C2 as stated: no two runs are active at the same time on the same issue
\* slug, whatever the dispatch mode and even when the list or group names a
\* slug twice.  It is violated.
C2_AsStated ==
    \A i, j \in ActiveSlots : i # j => issues[i] # issues[j]

\* C9 as stated: once the user has aborted, the dispatcher ends by raising
\* the abort (exit status 130) and never by returning or by another error,
\* and no run is started after the abort.  It is violated.
C9_AsStated ==
    /\ [](abortSeen /\ outcome # "running" =>
             outcome = "abort" /\ ExitCode = 130)
    /\ [][abortSeen =>
             \A i \in Slots : run[i].pc \in {"idle", "gate"} =>
                                 run'[i].pc \in {"idle", "gate", "done"}]_vars

\* C10 as stated: in parallel mode, after an abort every unfinished task
\* has a cancellation pending or is done, and the dispatcher ends by
\* raising the abort with one state collected per issue.  It is violated.
C10_AsStated ==
    (config.mode = "parallel" /\ abortSeen) =>
       /\ mpc = "gather" =>
             \A i \in Range(batch) : run[i].pc = "done" \/ i \in cancelReq
       /\ outcome # "running" =>
             /\ outcome = "abort"
             /\ Len(states) = Len(issues)

\* ----------------------------------------------------- streaming claims
\* C11 as stated: a call that was in flight when an abort signal arrived
\* ends by raising the abort, never with a normal or timed-out result, and
\* with its whole process group terminated.  It is violated.
C11_AsStated ==
    \A c \in Calls :
        (calls[c].owed /\ calls[c].pc = "done") =>
            /\ calls[c].result = "abort"
            /\ ~calls[c].leader
            /\ ~calls[c].others

\* C12 as stated: a call that timed out has returned the timed-out result
\* and no process of its group is alive.  It is violated.
C12_AsStated ==
    \A c \in Calls :
        (calls[c].pc = "done" /\ calls[c].result = "timeout") =>
            /\ ~calls[c].leader
            /\ ~calls[c].others

\* -------------------------------------------------------------- epic runs
\* the position of slot i in the plan: the number of its group (0: none)
GroupOf(i) ==
    IF \E g \in DOMAIN plan.groups : i \in Range(plan.groups[g])
    THEN CHOOSE g \in DOMAIN plan.groups : i \in Range(plan.groups[g])
    ELSE 0

\* run_pipeline has been entered for slot i
Started(i) == run[i].pc \notin {"idle", "gate"}

\* the states collected for slot i's issue
StatesOf(i) == {k \in DOMAIN states : states[k].slug = issues[i]}

\* slot i is finished with: its pipeline returned, or it was skipped as
\* already merged; its state is collected and no merge is owed for it
Settled(i) ==
    /\ run[i].pc \in {"done", "idle"}
    /\ StatesOf(i) # {}
    /\ \A k \in StatesOf(i) : ~Mergeable(states[k])

\* C13: in an epic run no pipeline of a later group has started unless
\* every pipeline of each earlier group has returned and the merge step has
\* been applied to each of its approved members.
C13_GroupOrder ==
    config.mode = "epic" =>
        \A i, j \in DOMAIN issues :
            (GroupOf(j) > 0 /\ GroupOf(i) > GroupOf(j) /\ Started(i)) =>
                Settled(j)

\* a pipeline of the second group runs after a member of the first group,
\* run in parallel with another, was approved and merged by the merge step
C13_Witness ==
    /\ config.mode = "epic"
    /\ Len(plan.groups) = 2
    /\ Len(plan.groups[1]) = 2
    /\ \E i \in Range(plan.groups[2]) : Active(i)
    /\ \E j \in Range(plan.groups[1]) :
          /\ run[j].pc = "done"
          /\ run[j].status = "approved"
          /\ \E k \in StatesOf(j) : states[k].status = "merged"

\* a member of a group whose pipeline ended neither approved nor merged
FailedMember(j) ==
    /\ GroupOf(j) > 0
    /\ run[j].pc = "done"
    /\ run[j].status \notin SuccessStatuses

\* C14 as stated: in an epic run without a user abort, once a member of a
\* group has ended neither approved nor merged, no pipeline of a later
\* group and no parent pipeline is started, and the run ends by returning
\* the states of that group and of the groups before it.  It is violated.
C14_AsStated ==
    (config.mode = "epic" /\ ~abortSeen) =>
        \A j \in DOMAIN issues :
            FailedMember(j) =>
                /\ \A i \in DOMAIN issues :
                      (GroupOf(i) > GroupOf(j) \/ i = plan.parent) =>
                          ~Started(i)
                /\ mpc = "end" =>
                      /\ outcome = "returned"
                      /\ \A i \in DOMAIN issues :
                            (GroupOf(i) > 0 /\ GroupOf(i) <= GroupOf(j)) =>
                                StatesOf(i) # {}

\* every member of every group is finished with and counts as a success
ChildrenOk ==
    \A j \in DOMAIN issues :
        GroupOf(j) > 0 =>
            /\ Settled(j)
            /\ \A k \in StatesOf(j) : states[k].status \in SuccessStatuses

\* C15: in an epic run the parent's pipeline is started only when every
\* member of every group is finished with, approved or merged, and so never
\* while a child pipeline is active; once it has ended it is not started
\* again; and when it ended approved, the run does not return before the
\* merge step has dealt with the parent's state.
C15_ParentLast ==
    /\ [](config.mode = "epic" =>
            /\ Started(plan.parent) =>
                  /\ ChildrenOk
                  /\ \A j \in DOMAIN issues : GroupOf(j) > 0 => ~Active(j)
            /\ (mpc = "end" /\ outcome = "returned") =>
                  \A k \in StatesOf(plan.parent) : ~Mergeable(states[k]))
    /\ [][config.mode = "epic" =>
            /\ Started(plan.parent) => Started(plan.parent)'
            /\ Ended(plan.parent) => run'[plan.parent] = run[plan.parent]]_vars

\* the parent ran after a group of two, ended approved and was merged
C15_Witness ==
    /\ config.mode = "epic"
    /\ mpc = "end"
    /\ outcome = "returned"
    /\ Ended(plan.parent)
    /\ run[plan.parent].status = "approved"
    /\ \E k \in StatesOf(plan.parent) : states[k].status = "merged"
    /\ \E j \in DOMAIN issues : GroupOf(j) > 0 /\ Ended(j)

\* the number of group members that name the issue of slot i
Occurrences(i) ==
    Cardinality({j \in DOMAIN issues : GroupOf(j) > 0 /\ issues[j] = issues[i]})

\* slot i was skipped: it has a state although run_pipeline never ran
Skipped(i) == run[i].pc = "idle" /\ StatesOf(i) # {}

\* C16: in an epic run a group member that is already merged when its group
\* is launched gets no pipeline (no worktree, no agent call) and one
\* synthetic merged state; every other member of the group is handed to
\* run_pipeline, which runs once for it, and gets one state.
C16_SkipMerged ==
    /\ [](config.mode = "epic" =>
            \A i \in DOMAIN issues :
                GroupOf(i) > 0 =>
                    /\ Cardinality(StatesOf(i)) <= Occurrences(i)
                    /\ Skipped(i) =>
                          /\ \A k \in StatesOf(i) : states[k] = MergedState(i)
                          /\ log[i] = <<>>
                          /\ ~wsExists[issues[i]]
                    /\ (mpc = "end" /\ outcome = "returned"
                                    /\ StatesOf(i) # {}) =>
                          Cardinality(StatesOf(i)) = Occurrences(i)
                    /\ Ended(i) => StatesOf(i) # {} \/ mpc \in {"gather", "epic_run", "end"})
    /\ [][config.mode = "epic" =>
            \A i \in DOMAIN issues :
                GroupOf(i) > 0 =>
                    /\ (mpc = "epic_loop" /\ idx = GroupOf(i)) =>
                          IF merged[issues[i]]
                          THEN /\ run'[i] = run[i]
                               /\ Cardinality(StatesOf(i))' = Occurrences(i)
                          ELSE /\ run'[i].pc # "idle"
                               /\ StatesOf(i)' = {}
                    /\ (~Started(i) /\ Started(i)') => ~merged[issues[i]]
                    /\ Ended(i) => run'[i] = run[i]]_vars

\* a group of two was launched with one member already merged: that member
\* has its synthetic state and no run, the other one was run and collected
C16_Witness ==
    /\ config.mode = "epic"
    /\ \E i, j \in DOMAIN issues :
          /\ GroupOf(i) > 0
          /\ GroupOf(j) = GroupOf(i)
          /\ Skipped(i)
          /\ Ended(j)
          /\ Cardinality(StatesOf(j)) = 1
    /\ mpc = "end"

\* -------------------------------------------------------- the base branch
\* the _update_main calls made after the merge of slot i's issue
PullsOf(i) == {k \in DOMAIN pulled : pulled[k].slug = issues[i]}

\* sequential mode: one pipeline at a time, in input order
OneByOne ==
    /\ Cardinality(ActiveSlots) <= 1
    /\ \A i, j \in DOMAIN issues : (i < j /\ Started(j)) => Ended(i)

\* C17 as stated: in sequential mode one pipeline is active at a time, in
\* input order, and when a later issue's pipeline has started, the base
\* branch has been fast-forwarded after every earlier issue that ended
\* approved, whatever the merge policy.  It is violated.
C17_AsStated ==
    config.mode = "sequential" =>
        /\ OneByOne
        /\ \A i, j \in DOMAIN issues :
              (i < j /\ Started(j) /\ run[i].status = "approved") =>
                  \E k \in PullsOf(i) : pulled[k].ok

\* C17, amended: in sequential mode one pipeline is active at a time, in
\* input order; when a later issue's pipeline has started, every earlier
\* issue that ended approved has, under the policies auto and wait and with
\* a pull request, been merged and been followed by one _update_main call
\* (whose fast-forward may have failed), and has, under the policy skip or
\* without a pull request, been left approved with no _update_main call.
C17_SeqMergeThenPull ==
    config.mode = "sequential" =>
        /\ OneByOne
        /\ \A i, j \in DOMAIN issues :
              (i < j /\ Started(j) /\ run[i].status = "approved") =>
                  IF config.merge_strategy = "skip" \/ ~run[i].pr
                  THEN states[i].status = "approved" /\ PullsOf(i) = {}
                  ELSE states[i].status = "merged"
                       /\ Cardinality(PullsOf(i)) = 1

\* the second issue runs after the first was approved, merged and pulled
C17_Witness ==
    /\ config.mode = "sequential"
    /\ Len(issues) = 2
    /\ Active(2)
    /\ run[1].status = "approved"
    /\ states[1].status = "merged"
    /\ PullsOf(1) # {}

\* no run_pipeline invocation is under way or waiting at the gate
Quiet == \A i \in Slots : run[i].pc \in {"idle", "done"}

RebaseFailed(i) == run[i].error = "Rebase failed"

\* C19: when the rebase after the first implementation fails, the run has
\* ended failed at that point: the coder's one implementation call and the
\* implemented checkpoint are the last things it did (no reviewer call, no
\* feedback call, no cleanup), and the worktree and the checkpoint with
\* step implemented are still there.
C19_RebaseConflictFatal ==
    RebaseFailed(1) =>
        /\ Ended(1)
        /\ run[1].status = "failed"
        /\ Count(1, "implement") = 1
        /\ Count(1, "review") = 0
        /\ Count(1, "apply_feedback") = 0
        /\ Count(1, "unlink") = 0
        /\ log[1][Len(log[1])] = Ev("save", 0, "implemented", "")
        /\ wsExists[issues[1]]
        /\ ckpt[issues[1]].step = "implemented"

\* a run of the full loop ended by a failed rebase
C19_Witness ==
    /\ RebaseFailed(1)
    /\ Ended(1)
    /\ config.iteration_mode = "full"
    /\ mpc = "end"

\* start_round of the review loop (330-340)
StartRound(i) ==
    LET sv == run[i].saved IN
    IF sv.step = "reviewed" THEN SavedRound(sv)
    ELSE IF sv.step = "feedback_applied" THEN SavedRound(sv) + 1
    ELSE 1

\* the run of slot i ended with the text of the exhausted review loop
Exhausted(i) ==
    /\ Ended(i)
    /\ run[i].status = "failed"
    /\ run[i].error = ExhaustedText(config.max_review_rounds)

\* every round from the start round to the last one ended with feedback
\* applied, and no review of the run returned anything but changes-requested
AllRoundsRejected(i) ==
    /\ \A n \in StartRound(i)..config.max_review_rounds :
          \E k \in DOMAIN log[i] : log[i][k].ev = "apply_ok" /\ log[i][k].n = n
    /\ \A k \in DOMAIN log[i] :
          log[i][k].ev = "review_ret" => log[i][k].x = "changes-requested"

\* the texts of the failures that happen outside the review rounds
OtherCauses ==
    {"Coder agent failed", "Rebase failed", "exception", "Aborted by user"}

\* C20: a run in full mode in which every round from the start round to
\* max_review_rounds was answered with changes-requested and had its
\* feedback applied ends failed with the exhaustion text, which names
\* max_review_rounds; and a run that carries this text went through exactly
\* that: no failed coder call, no reviewer error, no failed rebase, no abort.
C20_ExhaustionLabel ==
    config.iteration_mode = "full" =>
        /\ run[1].error = ExhaustedText(config.max_review_rounds) =>
              /\ Exhausted(1)
              /\ AllRoundsRejected(1)
              /\ ~Has(1, "apply_fail")
              /\ ~Has(1, "implement_fail")
        /\ (Ended(1) /\ AllRoundsRejected(1)
                     /\ StartRound(1) <= config.max_review_rounds) =>
              Exhausted(1)
        /\ (Ended(1) /\ StartRound(1) > config.max_review_rounds
                     /\ run[1].error \notin OtherCauses) =>
              Exhausted(1)
        /\ \A n \in 1..MaxRounds :
              n # config.max_review_rounds => run[1].error # ExhaustedText(n)

\* a run of two rounds, both reviewed in this run, ended exhausted
C20_Witness ==
    /\ Exhausted(1)
    /\ config.max_review_rounds = MaxRounds
    /\ Count(1, "review_ret") = MaxRounds
    /\ Count(1, "apply_ok") = MaxRounds

\* ------------------------------------------------------- agent failures
\* the event of an agent invocation that timed out or exited non-zero
IsAgentFailure(e) ==
    \/ e.ev \in {"implement_fail", "apply_fail"}
    \/ e.ev = "review_ret" /\ e.x = "error"

\* the error text the pipeline records for such an event
FailureText(e) ==
    CASE e.ev = "implement_fail" -> "Coder agent failed"
      [] e.ev = "apply_fail" -> "Coder agent failed on feedback"
      [] OTHER -> "Reviewer error"

\* the run of slot i ended by a failed agent invocation
AgentFailed(i) ==
    /\ log[i] # <<>>
    /\ IsAgentFailure(log[i][Len(log[i])])

\* C21: a failed coder or reviewer invocation is the last thing its run
\* does: the run has ended failed with the failure's text, nothing is
\* invoked after it, and no task is cancelled because of it; the dispatcher
\* ends by an exception only after a user abort or out of a merge step; and
\* the sequential dispatcher collects the failed state and goes on to the
\* next issue without a merge step.
C21_AgentFailureScoped ==
    /\ [](\A i \in DOMAIN issues : \A k \in DOMAIN log[i] :
            IsAgentFailure(log[i][k]) =>
                /\ k = Len(log[i])
                /\ Ended(i)
                /\ run[i].res = "state"
                /\ run[i].status = "failed"
                /\ run[i].error = FailureText(log[i][k])
                /\ (~abortSeen => cancelReq = {}))
    /\ [][/\ (outcome' \in {"error", "abort"} /\ outcome' # outcome) =>
                (abortSeen \/ mpc \in {"seq_merge", "epic_merge", "parent_merge"})
          /\ (mpc = "seq_run" /\ Ended(idx) /\ AgentFailed(idx)) =>
                /\ mpc' = "seq_loop"
                /\ idx' = idx + 1
                /\ states' = Append(states, StateOf(idx))
                /\ StateOf(idx).status = "failed"
                /\ UNCHANGED <<outcome, pulled, merged>>]_vars

\* the second issue of a sequential run is under way after the first one's
\* run ended by a coder timeout
C21_Witness ==
    /\ config.mode = "sequential"
    /\ AgentFailed(1)
    /\ log[1][Len(log[1])].x = "timeout"
    /\ Len(states) = 1
    /\ states[1].status = "failed"
    /\ Active(2)

\* -------------------------------------------------- tracker notifications
\* Two runs of run_pipeline side by side, slot 1 and slot 2, each in a
\* world of its own (slug 1, slug 2).  Both get the same answers from the
\* prompts, git, gh, the coder and the reviewer; the notifications of each
\* (the comments on the Linear issue, the review posted on the pull request)
\* succeed or fail independently.
NotifyResults == {"posted", "failed"}

\* linear.post_comment, github.post_pr_review: RuntimeError when the call fails
Post(nt) == IF nt = "posted" THEN "returned" ELSE "raised"

\* a notification without the except clause
MaybePostLinearCommentPropagates(nt) ==
    [raised |-> Post(nt) = "raised", warned |-> FALSE]

\* _maybe_post_linear_comment: `except Exception` prints a warning
MaybePostLinearComment(nt) ==
    [raised |-> FALSE, warned |-> Post(nt) = "raised"]

\* the try around post_pr_review in Reviewer.review: `except RuntimeError`
\* prints a warning and the review is returned
PostReviewGuarded(nt) ==
    [raised |-> FALSE, warned |-> Post(nt) = "raised"]

\* the answers the two runs share: those the code after the await at pc reads
NoInput == [q |-> FALSE, ok |-> TRUE, res |-> "ok", sid |-> "",
            madePr |-> FALSE, verdict |-> "approved", empty |-> TRUE]

TwinInputs(pc) ==
    CASE pc \in DbgPcs -> {[NoInput EXCEPT !.q = q] : q \in BOOLEAN}
      [] pc \in {"wt", "pr", "rebase"} ->
            {[NoInput EXCEPT !.ok = ok] : ok \in BOOLEAN}
      [] pc = "impl" ->
            {[NoInput EXCEPT !.res = x[1], !.sid = x[2], !.madePr = x[3]] :
                x \in {y \in AgentResults \X AgentSessions \X BOOLEAN :
                          y[1] # "ok" => y[2] = ""}}
      [] pc \in {"fb", "fb_resume"} ->
            {[NoInput EXCEPT !.res = x[1], !.sid = x[2]] :
                x \in {y \in AgentResults \X AgentSessions :
                          y[1] # "ok" => y[2] = ""}}
      [] pc = "review" ->
            {[NoInput EXCEPT !.verdict = x[1], !.empty = x[2]] :
                x \in {y \in Verdicts \X BOOLEAN :
                          y[1] # "changes-requested" => y[2]}}
      [] OTHER -> {NoInput}

\* what the code after the await at c.r.pc does with the answers
Handler(c, inp, pr) ==
    LET pc == c.r.pc IN
    CASE pc \in DbgPcs ->
            IF inp.q THEN OnKeyboardInterrupt(c) ELSE Arrive(c, TargetOf(pc))
      [] pc = "wt" -> IF inp.ok THEN AfterWorktree(c, pr) ELSE OnException(c)
      [] pc = "impl" ->
            AfterImplement(c, inp.res, inp.sid)
      [] pc = "pr" -> IF pr \/ inp.ok THEN AfterPrKnown(c) ELSE OnException(c)
      [] pc = "rebase" -> AfterRebase(c, inp.ok)
      [] pc \in {"fb", "fb_resume"} ->
            AfterFeedback(c, inp.res, inp.sid)
      [] pc = "review" ->
            AfterReview(c, inp.verdict,
                        IF inp.empty THEN "" ELSE FreshComments(c.r.round_num))
      [] pc = "cleanup" -> AfterCleanup(c)
      [] OTHER -> c

\* the handler with its notifications: an exception that gets out of one
\* lands in run_pipeline's `except Exception`
Notified(c, inp, pr, nt) ==
    IF c.r.pc \in {"idle", "done"} THEN c
    ELSE IF MaybePostLinearComment(nt).raised
            \/ (c.r.pc = "review" /\ PostReviewGuarded(nt).raised)
    THEN OnException(c)
    ELSE Handler(c, inp, pr)

Warned(c, nt) ==
    /\ c.r.pc \notin {"idle", "done"}
    /\ \/ MaybePostLinearComment(nt).warned
       \/ c.r.pc = "review" /\ PostReviewGuarded(nt).warned

Twins == {1, 2}

\* the worktree and the pull request of the world of slot i after the step
TwinWs(i, inp) ==
    CASE run[i].pc = "wt" /\ inp.ok -> TRUE
      [] run[i].pc = "cleanup" -> FALSE
      [] OTHER -> wsExists[issues[i]]

TwinPr(i, inp) ==
    CASE run[i].pc = "impl" -> prOpen[issues[i]] \/ inp.madePr
      [] run[i].pc = "pr" -> prOpen[issues[i]] \/ inp.ok
      [] OTHER -> prOpen[issues[i]]

TwinBegin ==
    /\ mpc = "twin"
    /\ \A i \in Twins : run[i].pc = "idle"
    /\ run' = [i \in Slots |-> IF i \in Twins THEN BeginRun(i).r ELSE run[i]]
    /\ log' = [i \in Slots |-> IF i \in Twins THEN BeginRun(i).lg ELSE log[i]]
    /\ UNCHANGED <<tree, doc, reader, topo, rev, sig, calls, pulled, notes, config, issues, plan, merged, batch,
                   mq, wsExists, ckpt, prOpen, mpc, idx, states, cancelReq,
                   outcome, abortSeen>>

TwinStep ==
    /\ mpc = "twin"
    /\ \E i \in Twins : run[i].pc \notin {"idle", "done"}
    /\ \E inp \in TwinInputs(IF Ended(1) THEN run[2].pc ELSE run[1].pc),
          nt \in [Twins -> NotifyResults] :
          LET d == [i \in Twins |->
                      Notified(Ctx(i), inp, prOpen[issues[i]], nt[i])]
          IN /\ run' = [i \in Slots |-> IF i \in Twins THEN d[i].r ELSE run[i]]
             /\ log' = [i \in Slots |-> IF i \in Twins THEN d[i].lg ELSE log[i]]
             /\ ckpt' = [s \in Slugs |->
                           IF s \in Twins THEN d[s].ck ELSE ckpt[s]]
             /\ wsExists' = [s \in Slugs |->
                               IF s \in Twins THEN TwinWs(s, inp)
                               ELSE wsExists[s]]
             /\ prOpen' = [s \in Slugs |->
                             IF s \in Twins THEN TwinPr(s, inp) ELSE prOpen[s]]
             /\ notes' = [i \in Slots |->
                            IF i \in Twins THEN notes[i] \/ Warned(Ctx(i), nt[i])
                            ELSE notes[i]]
    /\ UNCHANGED <<tree, doc, reader, topo, rev, sig, calls, pulled, config, issues, plan, merged, batch, mq,
                   mpc, idx, states, cancelReq, outcome, abortSeen>>

\* the two worlds start alike, in any state an earlier run can have left
TwinInit ==
    /\ config \in Configs({"sequential"}, 1..MaxRounds, {1})
    /\ config.merge_strategy = "skip"
    /\ issues = <<1, 2>>
    /\ plan = NoPlan
    /\ merged = [s \in Slugs |-> FALSE]
    /\ \E ws \in BOOLEAN, pr \in BOOLEAN, ck \in OldCkpts \cup {NoCkpt} :
          /\ (~ws => ck = NoCkpt)
          /\ wsExists = [s \in Slugs |-> s \in Twins /\ ws]
          /\ ckpt = [s \in Slugs |-> IF s \in Twins THEN ck ELSE NoCkpt]
          /\ prOpen = [s \in Slugs |-> s \in Twins /\ pr]
    /\ mpc = "twin"
    /\ InitCommon

TwinNext ==
    \/ TwinBegin
    \/ TwinStep

TwinSpec == TwinInit /\ [][TwinNext]_vars

\* C22: two runs of run_pipeline that start from the same configuration and
\* checkpoint and get the same answers from the coder, the reviewer, git and
\* gh are in the same state after every step (status, error, rounds, review
\* history), have written the same checkpoints in the same order and leave
\* the same checkpoint and worktree, whichever of their notifications fail.
C22_NotifyIndependent ==
    /\ run[1] = run[2]
    /\ log[1] = log[2]
    /\ ckpt[1] = ckpt[2]
    /\ wsExists[1] = wsExists[2]

\* both runs ended after a review, a notification failed in the first run
\* and none in the second
C22_Witness ==
    /\ mpc = "twin"
    /\ Ended(1)
    /\ Ended(2)
    /\ notes[1]
    /\ ~notes[2]
    /\ Has(1, "review_ret")
    /\ Has(1, "save")

\* --------------------------------------------------------- status edges
Working == {"pending", "implementing", "reviewing"}
Terminal == {"approved", "failed"}

\* the edges of the spec's state diagram
DiagramEdges ==
    {<<"pending", "implementing">>, <<"implementing", "reviewing">>,
     <<"reviewing", "implementing">>} \cup (Working \X Terminal)

\* the status of every run changes along the given edges only; a collected
\* state changes its status only in the merge step, from approved to merged
StatusMoves(edges) ==
    /\ \A i \in Slots :
          run'[i].status # run[i].status =>
              <<run[i].status, run'[i].status>> \in edges
    /\ \A k \in DOMAIN states :
          (k \in DOMAIN states' /\ states'[k].status # states[k].status) =>
              /\ states[k].status = "approved"
              /\ states'[k].status = "merged"
              /\ mpc \in {"seq_merge", "epic_merge", "parent_merge"}

\* C23 as stated: the status of a run changes only along the edges
\* pending->implementing, implementing->reviewing, reviewing->implementing
\* and from these three into approved or failed; merged is set only by the
\* merge step, on an approved state.  It is violated.
C23_AsStated == [][StatusMoves(DiagramEdges)]_vars

\* C23, amended: the status of a run changes only along those edges and
\* along pending->reviewing, which a resumed run takes when it skips the
\* implementation; approved and failed are final in run_pipeline, which
\* never sets merged; merged is set only by the merge step, on a collected
\* state that is approved.
C23_StatusEdges ==
    /\ [][StatusMoves(DiagramEdges \cup {<<"pending", "reviewing">>})]_vars
    /\ [](\A i \in Slots : run[i].status \in Working \cup Terminal)

\* a resumed run went from pending straight to reviewing
C23_Witness ==
    /\ run[1].status = "reviewing"
    /\ Has(1, "skip_implement")
    /\ ~Has(1, "apply_feedback")
    /\ run[1].pc = "review"

\* ------------------------------------------------------------------- C24
\* C24: every PipelineState a dispatcher hands back with status failed
\* carries a non-empty error text; that includes the states the parallel
\* dispatcher makes up for tasks that ended with an exception or cancelled.
C24_FailedHasError ==
    \A k \in 1..Len(states) :
        states[k].status = "failed" => states[k].error # ""


C24_Witness ==
    /\ config.mode = "parallel"
    /\ outcome = "returned"
    /\ \E k \in 1..Len(states) :
          states[k].status = "failed" /\ states[k].error = "Aborted by user"
    /\ \E k \in 1..Len(states) : states[k].status = "approved"
\* ------------------------------------------------- dependency grouping
\* _topological_groups of epic.py and of linear.py, run on one dependency
\* map.  The map is built row by row, as parse_epic_plan reads the table
\* rows and fetch_epic_plan appends the blocking relations.
MaxNode == 3
MaxEdges == 3
Nodes == 1..MaxNode

\* a set of issue numbers listed from the highest down
RECURSIVE SortedReverse(_)
SortedReverse(S) ==
    IF S = {} THEN <<>>
    ELSE LET hi == CHOOSE n \in S : \A m \in S : n >= m
         IN <<hi>> \o SortedReverse(S \ {hi})

\* sorted(S) of a set of issue numbers
RECURSIVE Sorted(_)
Sorted(S) ==
    IF S = {} THEN <<>>
    ELSE LET lo == CHOOSE n \in S : \A m \in S : n <= m
         IN <<lo>> \o Sorted(S \ {lo})

\* sum(1 for d in deps if d in S)
CountIn(deps, S) == Cardinality({k \in DOMAIN deps : deps[k] \in S})

\* an in-degree that counts every dependency, nodes or not
InDegreeCountsAll(keys, deps) ==
    [n \in Nodes |-> IF n \in keys THEN Len(deps[n]) ELSE 0]

\* in_degree = {n: sum(1 for d in dependencies[n] if d in all_issues) ...}
InDegree(keys, deps) ==
    [n \in Nodes |-> IF n \in keys THEN CountIn(deps[n], keys) ELSE 0]

\* the locals of one call before the while loop; `while remaining` is
\* false at once for an empty map
StartCall(keys, deps) ==
    [in_degree |-> InDegree(keys, deps), remaining |-> keys,
     groups |-> <<>>, pc |-> IF keys = {} THEN "returned" ELSE "loop"]

\* a cycle branch that gives every leftover node a group of its own
CycleDumpSplit(c) ==
    [c EXCEPT !.groups = c.groups \o [k \in 1..Cardinality(c.remaining) |->
                                         <<Sorted(c.remaining)[k]>>],
              !.pc = "returned"]

\* `if not ready: groups.append(sorted(remaining)); break`
CycleDump(c) ==
    [c EXCEPT !.groups = Append(c.groups, Sorted(c.remaining)),
              !.pc = "returned"]

\* groups.append(ready); for n in ready: remaining.remove(n); then the
\* loop condition
TakeReady(c, ready) ==
    LET rest == c.remaining \ ready
    IN [c EXCEPT !.groups = Append(c.groups, Sorted(ready)),
                 !.remaining = rest,
                 !.pc = IF rest = {} THEN "returned" ELSE "loop"]

\* a decrement that counts a dependency named twice once
LinearDecrementOnce(c, deps, ready) ==
    [c EXCEPT !.in_degree =
        [m \in Nodes |->
            IF m \in c.remaining
            THEN c.in_degree[m] - Cardinality(Range(deps[m]) \cap ready)
            ELSE c.in_degree[m]]]

\* linear.py: for m in remaining:
\*                in_degree[m] -= sum(1 for d in deps[m] if d in ready)
LinearDecrement(c, deps, ready) ==
    [c EXCEPT !.in_degree =
        [m \in Nodes |->
            IF m \in c.remaining
            THEN c.in_degree[m] - CountIn(deps[m], ready)
            ELSE c.in_degree[m]]]

\* epic.py: the same subtraction behind `if any(d in ready ...)`
EpicDecrement(c, deps, ready) ==
    [c EXCEPT !.in_degree =
        [m \in Nodes |->
            IF m \in c.remaining /\ \E k \in DOMAIN deps[m] : deps[m][k] \in ready
            THEN c.in_degree[m] - CountIn(deps[m], ready)
            ELSE c.in_degree[m]]]

\* ready = sorted(n for n in remaining if in_degree[n] == 0), as a set
Ready(c) == {n \in c.remaining : c.in_degree[n] = 0}

\* one round of the while loop of epic._topological_groups
EpicRound(c, deps) ==
    IF Ready(c) = {} THEN CycleDump(c)
    ELSE EpicDecrement(TakeReady(c, Ready(c)), deps, Ready(c))

\* one round of the while loop of linear._topological_groups
LinearRound(c, deps) ==
    IF Ready(c) = {} THEN CycleDump(c)
    ELSE LinearDecrement(TakeReady(c, Ready(c)), deps, Ready(c))

\* number of dependency entries in the map
RECURSIVE Entries(_, _)
Entries(deps, S) ==
    IF S = {} THEN 0
    ELSE LET n == CHOOSE n \in S : TRUE
         IN Len(deps[n]) + Entries(deps, S \ {n})

\* a row of the epic's table, or a child of the Linear parent: a new key
\* with no dependencies yet
AddRow(n) ==
    /\ topo.pc = "build"
    /\ n \notin topo.keys
    /\ topo' = [topo EXCEPT !.keys = @ \cup {n}]
    /\ UNCHANGED <<tree, doc, reader, rev, sig, calls, pulled, notes, config, issues, plan, merged, batch, mq,
                   wsExists, ckpt, prOpen, run, log, mpc, idx, states,
                   cancelReq, outcome, abortSeen>>

\* one more `#d` in the row of n, or one more relation blocking n
AddDep(n, d) ==
    /\ topo.pc = "build"
    /\ n \in topo.keys
    /\ Entries(topo.deps, Nodes) < MaxEdges
    /\ topo' = [topo EXCEPT !.deps[n] = Append(@, d)]
    /\ UNCHANGED <<tree, doc, reader, rev, sig, calls, pulled, notes, config, issues, plan, merged, batch, mq,
                   wsExists, ckpt, prOpen, run, log, mpc, idx, states,
                   cancelReq, outcome, abortSeen>>

\* both functions are called on the map
CallGroups ==
    /\ topo.pc = "build"
    /\ topo' = [topo EXCEPT !.pc = "called",
                            !.e = StartCall(topo.keys, topo.deps),
                            !.l = StartCall(topo.keys, topo.deps)]
    /\ UNCHANGED <<tree, doc, reader, rev, sig, calls, pulled, notes, config, issues, plan, merged, batch, mq,
                   wsExists, ckpt, prOpen, run, log, mpc, idx, states,
                   cancelReq, outcome, abortSeen>>

EpicLoop ==
    /\ topo.pc = "called"
    /\ topo.e.pc = "loop"
    /\ topo' = [topo EXCEPT !.e = EpicRound(topo.e, topo.deps)]
    /\ UNCHANGED <<tree, doc, reader, rev, sig, calls, pulled, notes, config, issues, plan, merged, batch, mq,
                   wsExists, ckpt, prOpen, run, log, mpc, idx, states,
                   cancelReq, outcome, abortSeen>>

LinearLoop ==
    /\ topo.pc = "called"
    /\ topo.l.pc = "loop"
    /\ topo' = [topo EXCEPT !.l = LinearRound(topo.l, topo.deps)]
    /\ UNCHANGED <<tree, doc, reader, rev, sig, calls, pulled, notes, config, issues, plan, merged, batch, mq,
                   wsExists, ckpt, prOpen, run, log, mpc, idx, states,
                   cancelReq, outcome, abortSeen>>

NotCalled == [in_degree |-> [n \in Nodes |-> 0], remaining |-> {},
               groups |-> <<>>, pc |-> "idle"]

TopoInit ==
    /\ AtRest
    /\ rev = NoRev
    /\ tree = NoTree
    /\ doc = NoDoc
    /\ reader = NoReader
    /\ topo = [pc |-> "build", keys |-> {}, deps |-> [n \in Nodes |-> <<>>],
               e |-> NotCalled, l |-> NotCalled]

TopoNext ==
    \/ \E n \in Nodes : AddRow(n)
    \/ \E n \in Nodes, d \in Nodes : AddDep(n, d)
    \/ CallGroups
    \/ EpicLoop
    \/ LinearLoop

TopoSpec == TopoInit /\ [][TopoNext]_vars

\* the dependencies between nodes of the map: n depends on d
DepEdges ==
    {e \in topo.keys \X topo.keys :
        \E k \in DOMAIN topo.deps[e[1]] : topo.deps[e[1]][k] = e[2]}

RECURSIVE Closure(_)
Closure(R) ==
    LET R2 == R \cup {e \in topo.keys \X topo.keys :
                        \E b \in topo.keys : <<e[1], b>> \in R /\ <<b, e[2]>> \in R}
    IN IF R2 = R THEN R ELSE Closure(R2)

\* the nodes on a dependency cycle
OnCycle ==
    LET tc == Closure(DepEdges)
    IN {m \in topo.keys : <<m, m>> \in tc}

\* the nodes on a dependency cycle and those that depend on one
Stuck ==
    LET tc == Closure(DepEdges)
        cyc == {m \in topo.keys : <<m, m>> \in tc}
    IN cyc \cup {n \in topo.keys : \E m \in cyc : <<n, m>> \in tc}

Acyclic == OnCycle = {}

\* the call has returned its groups
Returned(c) == topo.pc = "called" /\ c.pc = "returned"

\* every node of the map is in the groups exactly once, no group is empty
Partitioned(c) ==
    /\ \A k \in DOMAIN c.groups : c.groups[k] # <<>>
    /\ \A n \in topo.keys :
          Cardinality({p \in (DOMAIN c.groups) \X Nodes :
                          p[2] \in DOMAIN c.groups[p[1]]
                          /\ c.groups[p[1]][p[2]] = n}) = 1

GroupAt(c, n) == CHOOSE k \in DOMAIN c.groups : n \in Range(c.groups[k])

\* the map of the example: #1 no dependencies, #2 on #1, #3 on #1 and #2
ExampleMap ==
    /\ topo.keys = {1, 2, 3}
    /\ topo.deps[1] = <<>>
    /\ topo.deps[2] = <<1>>
    /\ topo.deps[3] = <<1, 2>>

\* C25: on a map without a dependency cycle epic._topological_groups
\* returns groups in which every dependency that is itself a node of the map
\* lies in a strictly earlier group than the node that names it, every node
\* being in exactly one group; the map #1 <- #2, #1,#2 <- #3 gives
\* [[1],[2],[3]].
C25_DepsEarlier ==
    Returned(topo.e) /\ Acyclic =>
        /\ Partitioned(topo.e)
        /\ \A n \in topo.keys : \A k \in DOMAIN topo.deps[n] :
              topo.deps[n][k] \in topo.keys =>
                  GroupAt(topo.e, topo.deps[n][k]) < GroupAt(topo.e, n)
        /\ (ExampleMap => topo.e.groups = << <<1>>, <<2>>, <<3>> >>)

C25_Witness ==
    /\ Returned(topo.e)
    /\ ExampleMap
    /\ topo.e.groups = << <<1>>, <<2>>, <<3>> >>

\* a round of a call either returns or takes at least one node out of
\* `remaining`
Shrinks(c, d) ==
    d # c => d.pc = "returned" \/ (d.remaining \subseteq c.remaining
                                   /\ d.remaining # c.remaining)

\* C26: on a map with a dependency cycle (a node depending on itself
\* included) both grouping functions terminate, every round returning or
\* shrinking the set of remaining nodes, and the nodes that never reach
\* in-degree zero (those on a cycle and those depending on one) make up
\* exactly one group, the last, after the groups of the resolvable nodes.
C26_CycleOneFinalGroup ==
    /\ [](\A c \in {topo.e, topo.l} :
            Returned(c) =>
                LET stuck == Stuck
                IN stuck # {} =>
                      /\ Partitioned(c)
                      /\ c.groups[Len(c.groups)] = Sorted(stuck)
                      /\ \A k \in 1..(Len(c.groups) - 1) :
                            Range(c.groups[k]) \cap stuck = {})
    /\ [][topo.pc = "called" =>
            Shrinks(topo.e, topo'.e) /\ Shrinks(topo.l, topo'.l)]_vars

C26_Witness ==
    /\ Returned(topo.e)
    /\ Returned(topo.l)
    /\ \E n \in topo.keys : n \in Range(topo.deps[n])
    /\ \E n \in Stuck : n \notin OnCycle
    /\ Len(topo.e.groups) = 2

\* C27: on every dependency map, whether it names a dependency twice,
\* names issues that are not nodes of the map, or has cycles,
\* epic._topological_groups and linear._topological_groups return the same
\* groups.
C27_SameGroups ==
    Returned(topo.e) /\ Returned(topo.l) => topo.e.groups = topo.l.groups

C27_Witness ==
    /\ Returned(topo.e)
    /\ Returned(topo.l)
    /\ topo.e.groups = topo.l.groups
    /\ \E n \in topo.keys : topo.deps[n] = <<n, n>>
    /\ \E n \in topo.keys : \E k \in DOMAIN topo.deps[n] :
          topo.deps[n][k] \notin topo.keys
    /\ Len(topo.e.groups) = 2

\* ------------------------------------------------------ reviewer output
\* Reviewer.review after run_streaming has returned, and _parse_review on
\* the JSON object the reviewer wrote.  A key the object does not have
\* holds Missing; dict.get(key, default) is Get.
MaxItems == 2
Missing == "<missing>"
Get(d, key, default) == IF d[key] = Missing THEN default ELSE d[key]

SeverityNames == {"bug", "correctness", "design", "testing", "nit"}

\* what a reviewer may write for a verdict and for a severity
VerdictStrings == Verdicts \cup {"lgtm", Missing}
SeverityStrings == SeverityNames \cup {"blocker", Missing}

\* the elements of "items": objects, and things that are not objects
RawItems ==
    [dict : {TRUE}, file : {"a.py"}, comment : {"crash", "rename"},
     severity : SeverityStrings]
    \cup {[dict |-> FALSE, file |-> Missing, comment |-> Missing,
           severity |-> Missing]}

RawItemLists == UNION {[1..n -> RawItems] : n \in 0..MaxItems}

\* what _extract_json finds in the output: no JSON object, or an object
RawOutputs ==
    [json : {TRUE}, verdict : VerdictStrings, items : RawItemLists,
     comments : {Missing, "looks fine"}]
    \cup {[json |-> FALSE, verdict |-> Missing, items |-> <<>>,
           comments |-> Missing]}

\* the feedback text: the lines made from the items, or a plain text
NoLines(text) == [lines |-> <<>>, text |-> text]

\* a conversion that takes an unknown verdict for a request for changes
ToVerdictLenient(s) == IF s \in Verdicts THEN s ELSE "changes-requested"

\* try: ReviewVerdict(verdict_str) except ValueError: ReviewVerdict.ERROR
ToVerdict(s) == IF s \in Verdicts THEN s ELSE "error"

\* try: ReviewSeverity(...) except ValueError: ReviewSeverity.CORRECTNESS
ToSeverity(s) == IF s \in SeverityNames THEN s ELSE "correctness"

\* ReviewItem(file=..., comment=..., severity=severity)
ItemOf(raw_item) ==
    [file |-> Get(raw_item, "file", ""),
     comment |-> Get(raw_item, "comment", ""),
     severity |-> ToSeverity(Get(raw_item, "severity", "correctness"))]

IsDict(raw_item) == raw_item.dict

\* the loop over data.get("items", [])
ItemsOf(raw_items) ==
    LET dicts == SelectSeq(raw_items, IsDict)
    IN [k \in 1..Len(dicts) |-> ItemOf(dicts[k])]

\* f"- [{item.severity.value}] {item.file}: {item.comment}" for every item,
\* or data.get("comments", "") when there is none
FeedbackOf(items, data) ==
    IF items # <<>>
    THEN [lines |-> items, text |-> ""]
    ELSE NoLines(Get(data, "comments", ""))

\* a parser without the guard against an approval that carries items
GuardOff(verdict, items) == verdict

\* if verdict == APPROVED and items: verdict = CHANGES_REQUESTED
Guard(verdict, items) ==
    IF verdict = "approved" /\ items # <<>> THEN "changes-requested"
    ELSE verdict

\* a parser that takes output without a JSON object for a request for
\* changes
ParseReviewGuesses(data) ==
    IF ~data.json
    THEN [verdict |-> "changes-requested",
          comments |-> NoLines("Could not parse reviewer output"),
          items |-> <<>>]
    ELSE LET verdict == ToVerdict(Get(data, "verdict", "error"))
             items == ItemsOf(data.items)
         IN [verdict |-> Guard(verdict, items),
             comments |-> FeedbackOf(items, data),
             items |-> items]

\* _parse_review from `data = self._extract_json(candidate)` on
ParseReview(data) ==
    IF ~data.json
    THEN [verdict |-> "error",
          comments |-> NoLines("Could not parse reviewer output"),
          items |-> <<>>]
    ELSE LET verdict == ToVerdict(Get(data, "verdict", "error"))
             items == ItemsOf(data.items)
         IN [verdict |-> Guard(verdict, items),
             comments |-> FeedbackOf(items, data),
             items |-> items]

\* result.returncode == -1
ReviewTimedOut ==
    /\ rev.pc = "raw"
    /\ rev' = [rev EXCEPT !.pc = "timed_out",
                          !.result = [verdict |-> "error",
                                      comments |-> NoLines("Reviewer timed out"),
                                      items |-> <<>>]]
    /\ UNCHANGED <<tree, doc, reader, topo, sig, calls, pulled, notes, config, issues, plan, merged, batch, mq,
                   wsExists, ckpt, prOpen, run, log, mpc, idx, states,
                   cancelReq, outcome, abortSeen>>

\* result.returncode != 0
ReviewExitedNonZero ==
    /\ rev.pc = "raw"
    /\ rev' = [rev EXCEPT !.pc = "failed",
                          !.result = [verdict |-> "error",
                                      comments |-> NoLines("Reviewer failed"),
                                      items |-> <<>>]]
    /\ UNCHANGED <<tree, doc, reader, topo, sig, calls, pulled, notes, config, issues, plan, merged, batch, mq,
                   wsExists, ckpt, prOpen, run, log, mpc, idx, states,
                   cancelReq, outcome, abortSeen>>

\* review = self._parse_review(result.stdout)
ReviewParsed ==
    /\ rev.pc = "raw"
    /\ rev' = [rev EXCEPT !.pc = "parsed", !.result = ParseReview(rev.raw)]
    /\ UNCHANGED <<tree, doc, reader, topo, sig, calls, pulled, notes, config, issues, plan, merged, batch, mq,
                   wsExists, ckpt, prOpen, run, log, mpc, idx, states,
                   cancelReq, outcome, abortSeen>>

ReviewInit ==
    /\ AtRest
    /\ topo = NoTopo
    /\ tree = NoTree
    /\ doc = NoDoc
    /\ reader = NoReader
    /\ \E raw \in RawOutputs :
          rev = [pc |-> "raw", raw |-> raw,
                 result |-> [verdict |-> "error", comments |-> NoLines(""),
                             items |-> <<>>]]

ReviewNext ==
    \/ ReviewTimedOut
    \/ ReviewExitedNonZero
    \/ ReviewParsed

ReviewSpec == ReviewInit /\ [][ReviewNext]_vars

\* the parser has produced rev.result
Parsed == rev.pc = "parsed"

RawDicts == SelectSeq(rev.raw.items, IsDict)

\* the feedback text has a line for the item
InFeedback(item) ==
    \E k \in DOMAIN rev.result.comments.lines :
        rev.result.comments.lines[k] = item

\* C29: reviewer output with at least one item, all of severity nit, parses
\* to the verdict approved whatever verdict string it carried, with the items
\* kept in the result and none of them in the feedback text; output with nit
\* and other items parses to a feedback text with the other items and
\* without the nit items.
C29_AsStated ==
    Parsed /\ rev.raw.json /\ RawDicts # <<>> =>
        /\ (\A k \in DOMAIN RawDicts : RawDicts[k].severity = "nit") =>
              /\ rev.result.verdict = "approved"
              /\ Len(rev.result.items) = Len(RawDicts)
        /\ \A k \in DOMAIN rev.result.items :
              InFeedback(rev.result.items[k])
                  <=> rev.result.items[k].severity # "nit"

\* C30: a verdict string outside approved, changes-requested and error, or
\* no verdict at all, parses to the verdict error; an item whose severity is
\* missing or not one of the five names is kept, in its place, with severity
\* correctness; in neither case is the parse given up or an item dropped.
C30_Normalised ==
    Parsed /\ rev.raw.json =>
        /\ rev.raw.verdict \notin Verdicts => rev.result.verdict = "error"
        /\ Len(rev.result.items) = Len(RawDicts)
        /\ \A k \in DOMAIN RawDicts :
              /\ rev.result.items[k].file = RawDicts[k].file
              /\ rev.result.items[k].comment = RawDicts[k].comment
              /\ rev.result.items[k].severity =
                    IF RawDicts[k].severity \in SeverityNames
                    THEN RawDicts[k].severity ELSE "correctness"
        /\ rev.result.comments.text # "Could not parse reviewer output"

C30_Witness ==
    /\ Parsed
    /\ rev.raw.verdict = "lgtm"
    /\ rev.result.verdict = "error"
    /\ Len(rev.raw.items) = 2
    /\ rev.raw.items[1].severity = Missing /\ rev.raw.items[1].dict
    /\ rev.raw.items[2].severity = "blocker"
    /\ rev.result.items[1].severity = "correctness"
    /\ rev.result.items[2].severity = "correctness"

\* ------------------------------------------------------------------- C31
\* reviewer output in which no recovery tier of _extract_json finds an object
NoJson == [json |-> FALSE, verdict |-> Missing, items |-> <<>>,
           comments |-> Missing]

\* the review of round n came back with the verdict error
ErrorReview(i, k) ==
    log[i][k].ev = "review_ret" /\ log[i][k].x = "error"

\* C31: reviewer output that cannot be parsed into a verdict object gives a
\* review result with the verdict error and no items; and a run whose review
\* came back with the verdict error ends failed in that round, the review
\* being its last step: no coder invocation follows and no checkpoint
\* `reviewed` is written for that round.
C31_ParseFailureFatal ==
    /\ ParseReview(NoJson).verdict = "error"
    /\ ParseReview(NoJson).items = <<>>
    /\ \A i \in Slots : \A k \in DOMAIN log[i] :
          ErrorReview(i, k) =>
              /\ k = Len(log[i])
              /\ Ended(i)
              /\ run[i].status = "failed"
              /\ run[i].error = "Reviewer error"
              /\ run[i].current_round = log[i][k].n
              /\ run[i].review_history[Len(run[i].review_history)] = "error"
              /\ ~\E j \in DOMAIN log[i] :
                    /\ log[i][j].ev = "save"
                    /\ log[i][j].x = "reviewed"
                    /\ log[i][j].n = log[i][k].n

\* a second round ends with a reviewer error after a first round whose
\* feedback was applied
C31_Witness ==
    /\ log[1] # <<>>
    /\ ErrorReview(1, Len(log[1]))
    /\ log[1][Len(log[1])].n = 2
    /\ Has(1, "apply_ok")
    /\ run[1].status = "failed"
    /\ ckpt[1] # NoCkpt /\ ckpt[1].step = "feedback_applied"

\* ---------------------------------------------------------- worktree.py
\* create_worktree and remove_worktree against git's state: the worktree
\* directories that exist and the local branches.  `ops` is the history of
\* the calls made.
MaxOps == 2
WtSlugs == {"7", "eng-12"}
BaseBranches == {"main", "develop"}
Cwd == "<cwd>"

\* branch_name_for(issue_slug)
BranchNameFor(slug) == "corbit/issue-" \o slug

\* _worktree_base() / f"issue-{issue_slug}", as path components
WorktreePath(slug) == <<Cwd, ".corbit-worktrees", "issue-" \o slug>>

\* the exit status of the git commands whose failure create_worktree lets
\* through (_run_git raises), and whether the rebase met a conflict
GitRuns == [fetch : BOOLEAN, add : BOOLEAN, reset : BOOLEAN,
            conflict : BOOLEAN]

\* WorktreeInfo(issue_slug=..., branch_name=..., path=..., base_branch=...)
WorktreeInfoOf(slug, base) ==
    [issue_slug |-> slug, branch_name |-> BranchNameFor(slug),
     path |-> WorktreePath(slug), base_branch |-> base]

Raised(cmd) == [raised |-> cmd]

\* a reconciliation that gives up when the rebase meets a conflict
RebaseOntoBaseStrict(git) ==
    IF git.conflict THEN "rebase" ELSE "ok"

\* _rebase_worktree_onto_base: "ok", or the git command that made it raise.
\* The results of `rebase --abort`, `rebase`, `rev-parse` and `push` are
\* not looked at; on a conflict the branch is reset with _run_git.
RebaseOntoBase(git) ==
    IF git.conflict /\ ~git.reset THEN "reset" ELSE "ok"

\* create_worktree: the result, and git's state after the call
CreateResult(t, slug, base, git) ==
    LET path == WorktreePath(slug)
        branch == BranchNameFor(slug)
        info == WorktreeInfoOf(slug, base)
    IN IF ~git.fetch THEN [res |-> Raised("fetch"), dirs |-> t.dirs,
                           branches |-> t.branches]
       ELSE IF path \in t.dirs
       THEN [res |-> IF RebaseOntoBase(git) = "ok" THEN info
                     ELSE Raised(RebaseOntoBase(git)),
             dirs |-> t.dirs, branches |-> t.branches]
       ELSE IF ~git.add THEN [res |-> Raised("worktree add"), dirs |-> t.dirs,
                              branches |-> t.branches]
       ELSE IF branch \in t.branches
       THEN [res |-> IF RebaseOntoBase(git) = "ok" THEN info
                     ELSE Raised(RebaseOntoBase(git)),
             dirs |-> t.dirs \cup {path}, branches |-> t.branches]
       ELSE [res |-> info, dirs |-> t.dirs \cup {path},
             branches |-> t.branches \cup {branch}]

CreateWorktree(slug, base, git) ==
    /\ tree.pc = "on"
    /\ Len(tree.ops) < MaxOps
    /\ LET out == CreateResult(tree, slug, base, git)
       IN tree' = [tree EXCEPT
                     !.dirs = out.dirs,
                     !.branches = out.branches,
                     !.ops = Append(@, [op |-> "create", slug |-> slug,
                                        existed |-> WorktreePath(slug) \in tree.dirs,
                                        conflict |-> git.conflict,
                                        res |-> out.res])]
    /\ UNCHANGED <<doc, reader, topo, rev, sig, calls, pulled, notes, config, issues, plan, merged,
                   batch, mq, wsExists, ckpt, prOpen, run, log, mpc, idx,
                   states, cancelReq, outcome, abortSeen>>

\* remove_worktree: both git commands, their failures swallowed
RemoveWorktree(slug) ==
    /\ tree.pc = "on"
    /\ Len(tree.ops) < MaxOps
    /\ tree' = [tree EXCEPT
                  !.dirs = @ \ {WorktreePath(slug)},
                  !.branches = @ \ {BranchNameFor(slug)},
                  !.ops = Append(@, [op |-> "remove", slug |-> slug,
                                     existed |-> WorktreePath(slug) \in tree.dirs,
                                     conflict |-> FALSE,
                                     res |-> Raised("")])]
    /\ UNCHANGED <<doc, reader, topo, rev, sig, calls, pulled, notes, config, issues, plan, merged,
                   batch, mq, wsExists, ckpt, prOpen, run, log, mpc, idx,
                   states, cancelReq, outcome, abortSeen>>

\* whatever earlier runs left behind: worktree directories and branches
TreeInit ==
    /\ AtRest
    /\ topo = NoTopo
    /\ rev = NoRev
    /\ doc = NoDoc
    /\ reader = NoReader
    /\ \E ds \in SUBSET WtSlugs, bs \in SUBSET WtSlugs :
          tree = [pc |-> "on",
                  dirs |-> {WorktreePath(s) : s \in ds},
                  branches |-> {BranchNameFor(s) : s \in bs},
                  ops |-> <<>>]

TreeNext ==
    \/ \E slug \in WtSlugs, base \in BaseBranches, git \in GitRuns :
          CreateWorktree(slug, base, git)
    \/ \E slug \in WtSlugs : RemoveWorktree(slug)

TreeSpec == TreeInit /\ [][TreeNext]_vars

\* the call succeeded: it returned a WorktreeInfo
Succeeded(e) == e.op = "create" /\ "raised" \notin DOMAIN e.res

\* C32: of two create_worktree calls in a row for the same slug, the first
\* having succeeded, the second finds the workspace and succeeds too unless
\* git fetch or git reset exits non-zero, with or without a rebase conflict
\* and whatever the base branch; both return the same branch name and the
\* same path, which are the ones computed from the slug.
C32_CreateTwice ==
    \A k \in 1..(Len(tree.ops) - 1) :
        LET a == tree.ops[k]
            b == tree.ops[k + 1]
        IN (Succeeded(a) /\ b.op = "create" /\ b.slug = a.slug) =>
              /\ b.existed
              /\ ~Succeeded(b) => b.res.raised \in {"fetch", "reset"}
              /\ Succeeded(b) =>
                    /\ b.res.branch_name = a.res.branch_name
                    /\ b.res.path = a.res.path
                    /\ b.res.branch_name = BranchNameFor(a.slug)
                    /\ b.res.path = WorktreePath(a.slug)
                    /\ \A s \in WtSlugs \ {a.slug} :
                          /\ BranchNameFor(s) # b.res.branch_name
                          /\ WorktreePath(s) # b.res.path

C32_Witness ==
    /\ Len(tree.ops) = 2
    /\ Succeeded(tree.ops[1])
    /\ Succeeded(tree.ops[2])
    /\ tree.ops[2].slug = tree.ops[1].slug
    /\ tree.ops[2].conflict
    /\ tree.ops[2].res.base_branch # tree.ops[1].res.base_branch
    /\ tree.ops[2].res.path = tree.ops[1].res.path

\* -------------------------------------------------------------- epic.py
\* is_epic and extract_epic_plan on an issue.  The body is a sequence of
\* lines; what the regular expressions of epic.py look at is each line's
\* kind: the heading `### Suggested Implementation Order`, another `##`
\* heading, a numbered line (`1. ` or `1) `) with the issue references
\* before its first dash separator (head) and those after it (tail), or a
\* line of prose with references.
MaxLines == 3

OrderHeading == [kind |-> "order", head |-> <<>>, tail |-> <<>>]
OtherHeading == [kind |-> "heading", head |-> <<>>, tail |-> <<>>]

LineKinds ==
    {OrderHeading, OtherHeading}
    \cup [kind : {"numbered"}, head : {<<>>, <<10>>, <<11, 12>>},
          tail : {<<>>, <<12>>}]
    \cup [kind : {"prose"}, head : {<<10>>, <<10, 10>>}, tail : {<<>>}]

Bodies == UNION {[1..n -> LineKinds] : n \in 0..MaxLines}

LabelLists == {<<>>, <<"bug">>, <<"bug", "epic:auth">>}

\* label.startswith("epic:")
StartsWithEpic(label) == label \in {"epic:auth"}

\* re.findall(r'#(\d+)', text) over the lines from index k on, in order
RECURSIVE RefsFrom(_, _)
RefsFrom(body, k) ==
    IF k > Len(body) THEN <<>>
    ELSE body[k].head \o body[k].tail \o RefsFrom(body, k + 1)

\* _extract_all_issue_refs(text)
ExtractAllIssueRefs(body) == RefsFrom(body, 1)

\* is_epic(issue)
IsEpicOf(issue) ==
    \/ \E k \in DOMAIN issue.labels : StartsWithEpic(issue.labels[k])
    \/ Len(ExtractAllIssueRefs(issue.body)) > 1

IsHeading(line) == line.kind \in {"order", "heading"}

\* the lines re.search captures after the first order heading: `(.*?)`
\* starts right after the heading's newline and runs to the first `\n##`
\* or to the end, so it ends before the first heading line that is not the
\* first captured line.  <<>> when there is no order heading.
OrderSection(body) ==
    IF \A k \in DOMAIN body : body[k].kind # "order" THEN <<>>
    ELSE LET h == CHOOSE k \in DOMAIN body :
                    /\ body[k].kind = "order"
                    /\ \A j \in 1..(k - 1) : body[j].kind # "order"
             stops == {j \in (h + 2)..Len(body) : IsHeading(body[j])}
             last == IF stops = {} THEN Len(body)
                     ELSE (CHOOSE j \in stops : \A m \in stops : j <= m) - 1
         IN SubSeq(body, h + 1, last)

\* the references of the whole line, prose after the separator included
HeaderRefsWholeLine(line) == line.head \o line.tail

\* header = re.split(r'\s+[—–-]{1,2}\s+', line, maxsplit=1)[0];
\* refs = re.findall(r'#(\d+)', header)
HeaderRefs(line) == line.head

\* the loop of _parse_implementation_order over the captured lines
RECURSIVE OrderGroups(_)
OrderGroups(lines) ==
    IF lines = <<>> THEN <<>>
    ELSE LET line == Head(lines)
         IN IF line.kind = "numbered" /\ HeaderRefs(line) # <<>>
            THEN <<HeaderRefs(line)>> \o OrderGroups(Tail(lines))
            ELSE OrderGroups(Tail(lines))

\* _parse_implementation_order(body); None is <<>>
ParseImplementationOrder(body) == OrderGroups(OrderSection(body))

\* _parse_dependency_table(body): no line has a 'Depends on' column
ParseDependencyTable(body) == <<>>

\* list(dict.fromkeys(refs)): first occurrences, in order
RECURSIVE Dedupe(_)
Dedupe(refs) ==
    IF refs = <<>> THEN <<>>
    ELSE LET init == Dedupe(SubSeq(refs, 1, Len(refs) - 1))
             x == refs[Len(refs)]
         IN IF x \in Range(init) THEN init ELSE Append(init, x)

\* extract_epic_plan(issue).groups
EpicPlanGroups(issue) ==
    LET g1 == ParseImplementationOrder(issue.body)
        g2 == IF g1 = <<>> THEN ParseDependencyTable(issue.body) ELSE g1
        refs == Dedupe(ExtractAllIssueRefs(issue.body))
    IN IF g2 = <<>> THEN [k \in 1..Len(refs) |-> <<refs[k]>>] ELSE g2

IsEpic ==
    /\ doc.pc = "on"
    /\ ~doc.checked
    /\ doc' = [doc EXCEPT !.checked = TRUE, !.is_epic = IsEpicOf(doc.issue)]
    /\ UNCHANGED <<tree, reader, topo, rev, sig, calls, pulled, notes, config, issues, plan, merged,
                   batch, mq, wsExists, ckpt, prOpen, run, log, mpc, idx,
                   states, cancelReq, outcome, abortSeen>>

ExtractEpicPlan ==
    /\ doc.pc = "on"
    /\ ~doc.planned
    /\ doc' = [doc EXCEPT !.planned = TRUE,
                          !.groups = EpicPlanGroups(doc.issue)]
    /\ UNCHANGED <<tree, reader, topo, rev, sig, calls, pulled, notes, config, issues, plan, merged,
                   batch, mq, wsExists, ckpt, prOpen, run, log, mpc, idx,
                   states, cancelReq, outcome, abortSeen>>

DocInit ==
    /\ AtRest
    /\ topo = NoTopo
    /\ rev = NoRev
    /\ tree = NoTree
    /\ reader = NoReader
    /\ \E labels \in LabelLists, body \in Bodies :
          doc = [pc |-> "on", issue |-> [labels |-> labels, body |-> body],
                 checked |-> FALSE, is_epic |-> FALSE,
                 planned |-> FALSE, groups |-> <<>>]

DocNext ==
    \/ IsEpic
    \/ ExtractEpicPlan

DocSpec == DocInit /\ [][DocNext]_vars

\* the issue ids the body references
RefIds ==
    UNION {Range(doc.issue.body[k].head) \cup Range(doc.issue.body[k].tail) :
              k \in DOMAIN doc.issue.body}

\* C33: is_epic is true exactly when a label starts with `epic:` or the
\* body references more than one distinct issue id; so a body that names
\* one id several times, under no epic label, is not an epic.
C33_AsStated ==
    doc.pc = "on" /\ doc.checked =>
        (doc.is_epic <=>
            \/ \E k \in DOMAIN doc.issue.labels :
                  StartsWithEpic(doc.issue.labels[k])
            \/ Cardinality(RefIds) > 1)

\* the first order heading of the body, 0 when there is none
FirstOrder ==
    IF \A k \in DOMAIN doc.issue.body : doc.issue.body[k].kind # "order"
    THEN 0
    ELSE CHOOSE k \in DOMAIN doc.issue.body :
            /\ doc.issue.body[k].kind = "order"
            /\ \A j \in 1..(k - 1) : doc.issue.body[j].kind # "order"

\* the numbered lines with a reference before the separator among the lines
\* after the order heading and before the first heading at index from or
\* later
Qualifying(from) ==
    {k \in (FirstOrder + 1)..Len(doc.issue.body) :
        /\ doc.issue.body[k].kind = "numbered"
        /\ doc.issue.body[k].head # <<>>
        /\ \A j \in from..k : ~IsHeading(doc.issue.body[j])}

Nth(Q, i) == CHOOSE k \in Q : Cardinality({j \in Q : j < k}) = i - 1

\* the plan has one group per line of Q, in line order, made of the
\* references before the line's separator; no other reference is in a group
GroupsAre(Q) ==
    /\ Len(doc.groups) = Cardinality(Q)
    /\ \A i \in 1..Len(doc.groups) :
          doc.groups[i] = doc.issue.body[Nth(Q, i)].head
    /\ \A i \in 1..Len(doc.groups) : \A r \in Range(doc.groups[i]) :
          \E k \in Q : r \in Range(doc.issue.body[k].head)

\* C34 as stated: whenever the body has the order section, the plan has one
\* group per numbered line of the section (the lines from the heading to the
\* next heading) that has a reference before its separator.
C34_AsStated ==
    doc.pc = "on" /\ doc.planned /\ FirstOrder # 0 =>
        GroupsAre(Qualifying(FirstOrder + 1))

\* C34: when at least one numbered line of the order section has a
\* reference before its dash separator, the plan has exactly one group per
\* such line, in line order, made of the references before the separator,
\* and a reference that appears only after a separator is in no group.  The
\* section runs from the heading to the next line that starts with `##`,
\* except that a heading directly under the section heading does not end it.
\* With no such line the plan comes from the other strategies.
C34_OrderGroups ==
    doc.pc = "on" /\ doc.planned /\ FirstOrder # 0
                  /\ Qualifying(FirstOrder + 2) # {} =>
        GroupsAre(Qualifying(FirstOrder + 2))

C34_Witness ==
    /\ doc.pc = "on"
    /\ doc.planned
    /\ Len(doc.issue.body) = 3
    /\ doc.issue.body[1] = OrderHeading
    /\ doc.issue.body[2] = [kind |-> "numbered", head |-> <<10>>, tail |-> <<12>>]
    /\ doc.issue.body[3] = [kind |-> "numbered", head |-> <<11, 12>>, tail |-> <<>>]
    /\ doc.groups = << <<10>>, <<11, 12>> >>

\* ------------------------------------------------------------------- C35
\* run_pipeline has returned its state (it did not end by an exception)
ReturnedState(i) == run[i].pc = "done" /\ run[i].res = "state"

\* C35: a state returned by run_pipeline has the status approved or failed,
\* never pending, implementing, reviewing or merged, whatever the
\* checkpoint, the coder's and reviewer's results, the iteration mode and
\* the exceptions raised.
C35_ReturnsTerminal ==
    \A i \in Slots : ReturnedState(i) => run[i].status \in {"approved", "failed"}


\* a run that got past its first step returns failed after an exception
C35_Witness ==
    /\ ReturnedState(1)
    /\ run[1].status = "failed"
    /\ run[1].error = "exception"
    /\ log[1] # <<>>

\* ------------------------------------------------------------------- C36
\* the coder is invoked: for the implementation or to apply feedback
CoderCall(e) == e.ev \in {"implement", "apply_feedback"}

\* C36: in full iteration mode a run has the status approved only if the
\* reviewer was invoked in this run, the last entry of review_history is
\* approved, and no coder invocation follows the approving review; a run
\* that is approved with an empty review history is in single-pass mode, and
\* a single-pass run never invokes the reviewer.
C36_ApprovedByReview ==
    \A i \in Slots :
        /\ (run[i].status = "approved" /\ config.iteration_mode = "full") =>
              /\ Has(i, "review")
              /\ run[i].review_history # <<>>
              /\ run[i].review_history[Len(run[i].review_history)] = "approved"
              /\ \E k \in DOMAIN log[i] :
                    /\ log[i][k].ev = "review_ret"
                    /\ log[i][k].x = "approved"
                    /\ \A j \in (k + 1)..Len(log[i]) :
                          ~CoderCall(log[i][j]) /\ log[i][j].ev # "review"
        /\ (run[i].status = "approved" /\ run[i].review_history = <<>>) =>
              config.iteration_mode = "single-pass"
        /\ config.iteration_mode = "single-pass" => ~Has(i, "review")

\* approved in the second round, after the feedback of the first was applied
C36_Witness ==
    /\ config.iteration_mode = "full"
    /\ run[1].status = "approved"
    /\ Ended(1)
    /\ run[1].review_history = <<"changes-requested", "approved">>
    /\ Has(1, "apply_ok")

\* ------------------------------------------------------ C37: exit code -1
\* C37: run_streaming returns a result with exit code -1 exactly when the
\* timeout expired; every other returned result carries the exit code of a
\* process that ended by itself, which is not negative, and a process that
\* a signal killed without a timeout ends the call with the abort condition
\* and no result.
C37_MinusOneIffTimeout ==
    \A c \in Calls :
        calls[c].pc = "done" =>
            /\ (calls[c].result \in {"result", "timeout"} /\ calls[c].ret = -1)
                   <=> calls[c].result = "timeout"
            /\ calls[c].result = "result" =>
                   calls[c].ret = calls[c].returncode /\ calls[c].ret >= 0
            /\ (calls[c].returncode < 0 /\ calls[c].result # "timeout") =>
                   calls[c].result = "abort"

\* a process killed by SIGHUP, return code -1, with no SIGINT and no timeout:
\* the call ended with the abort condition, while another call timed out
C37_Witness ==
    \E c, d \in Calls :
        /\ calls[c].pc = "done"
        /\ calls[c].returncode = -1
        /\ ~calls[c].sigint_received
        /\ ~calls[c].cancelled
        /\ calls[c].result = "abort"
        /\ calls[d].pc = "done"
        /\ calls[d].result = "timeout"
        /\ calls[d].ret = -1

\* --------------------------------------- run_streaming._read_stdout (203-231)
\* The subprocess writes lines to its stdout pipe.  A byte is written as the
\* number of its line, the newline that ends line k as -k.  proc.stdout is an
\* asyncio.StreamReader with the default limit, 2^16, scaled down to Limit;
\* the read size of the drain loop is the same number (211).
Limit == 2
ChunkSize == Limit

LineLengths == {1, Limit + 1}
Outputs == UNION {[1..n -> LineLengths] : n \in 1..MaxLines}

LineBytes(k, n) == [i \in 1..(n + 1) |-> IF i <= n THEN k ELSE -k]

RECURSIVE Written(_, _)
Written(ls, k) ==
    IF k > Len(ls) THEN <<>> ELSE LineBytes(k, ls[k]) \o Written(ls, k + 1)

\* position of the first newline of the buffer, 0 without one
FirstNewline(b) ==
    IF \E i \in DOMAIN b : b[i] < 0
    THEN CHOOSE i \in DOMAIN b : b[i] < 0 /\ \A j \in 1..(i - 1) : b[j] > 0
    ELSE 0

Rest(b, n) == SubSeq(b, n + 1, Len(b))

ReaderFrame ==
    UNCHANGED <<tree, doc, topo, rev, sig, calls, pulled, notes, config,
                issues, plan, merged, batch, mq, wsExists, ckpt, prOpen, run,
                log, mpc, idx, states, cancelReq, outcome, abortSeen>>

\* the pipe transport hands the reader what the process wrote, in pieces of
\* any size; it stops while the buffer is over twice the limit
FeedData ==
    /\ reader.pc \in {"readline", "drain"}
    /\ ~reader.paused
    /\ \E n \in 1..Len(reader.pipe) :
          LET b == reader.buffer \o SubSeq(reader.pipe, 1, n) IN
          reader' = [reader EXCEPT !.buffer = b,
                                   !.pipe = Rest(reader.pipe, n),
                                   !.paused = Len(b) > 2 * Limit]
    /\ ReaderFrame

\* the process closes its stdout
FeedEof ==
    /\ reader.pc \in {"readline", "drain"}
    /\ reader.pipe = <<>>
    /\ ~reader.eof
    /\ reader' = [reader EXCEPT !.eof = TRUE]
    /\ ReaderFrame

\* the reader resumes the transport when the buffer is back under the limit
Consumed(r, b) == [r EXCEPT !.buffer = b, !.paused = r.paused /\ Len(b) > Limit]

\* line_bytes = await proc.stdout.readline() (205-207, 214-217): a line up
\* to the limit is appended; at a longer line, or with more than the limit
\* buffered and no newline, readline drops what it looked at and raises
\* ValueError; at EOF the rest is the last line and b"" ends the loop
ReadLine ==
    /\ reader.pc = "readline"
    /\ LET b == reader.buffer
           p == FirstNewline(b)
       IN
       \/ /\ p > 0
          /\ p - 1 <= Limit
          /\ reader' = [Consumed(reader, Rest(b, p)) EXCEPT
                            !.stdout_lines = Append(@, SubSeq(b, 1, p))]
       \/ /\ p > 0
          /\ p - 1 > Limit
          /\ reader' = [Consumed(reader, Rest(b, p)) EXCEPT !.pc = "drain"]
       \/ /\ p = 0
          /\ Len(b) > Limit
          /\ reader' = [Consumed(reader, <<>>) EXCEPT !.pc = "drain"]
       \/ /\ p = 0
          /\ Len(b) <= Limit
          /\ reader.eof
          /\ reader' = IF b = <<>>
                       THEN [reader EXCEPT !.pc = "done"]
                       ELSE [Consumed(reader, <<>>) EXCEPT
                                 !.stdout_lines = Append(@, b)]
    /\ ReaderFrame

\* chunk = await proc.stdout.read(65536) in the except branch (208-213):
\* whatever is buffered, up to the read size; the loop ends at an empty chunk
\* or one whose last byte is a newline
DrainChunk ==
    /\ reader.pc = "drain"
    /\ reader.buffer # <<>> \/ reader.eof
    /\ LET n == IF Len(reader.buffer) < ChunkSize
                THEN Len(reader.buffer) ELSE ChunkSize
           chunk == SubSeq(reader.buffer, 1, n)
       IN reader' = [Consumed(reader, Rest(reader.buffer, n)) EXCEPT
                        !.pc = IF chunk = <<>> \/ chunk[Len(chunk)] < 0
                               THEN "readline" ELSE "drain"]
    /\ ReaderFrame

ReaderInit ==
    /\ AtRest
    /\ topo = NoTopo
    /\ rev = NoRev
    /\ tree = NoTree
    /\ doc = NoDoc
    /\ \E ls \in Outputs :
          reader = [pc |-> "readline", lines |-> ls, pipe |-> Written(ls, 1),
                    buffer |-> <<>>, eof |-> FALSE, paused |-> FALSE,
                    stdout_lines |-> <<>>]

ReaderNext ==
    \/ FeedData
    \/ FeedEof
    \/ ReadLine
    \/ DrainChunk

ReaderSpec == ReaderInit /\ [][ReaderNext]_vars

\* the lines of the output that are not longer than the limit, in order
RECURSIVE ShortLines(_, _)
ShortLines(ls, k) ==
    IF k > Len(ls) THEN <<>>
    ELSE (IF ls[k] <= Limit THEN <<LineBytes(k, ls[k])>> ELSE <<>>)
             \o ShortLines(ls, k + 1)

\* C38: the stdout text run_streaming returns is the concatenation, in
\* emission order, of every stdout line of the subprocess except the lines
\* longer than the read-buffer threshold; no shorter line is dropped.
C38_AsStated ==
    reader.pc = "done" => reader.stdout_lines = ShortLines(reader.lines, 1)

\* ------------------------------------------- C39: the groups partition
Ascending(g) == \A i, j \in DOMAIN g : i < j => g[i] < g[j]

\* the groups of a call are a partition of the keys of the map, each group
\* in ascending order
PartitionOfKeys(c) ==
    /\ Partitioned(c)
    /\ \A k \in DOMAIN c.groups :
          /\ Range(c.groups[k]) \subseteq topo.keys
          /\ Ascending(c.groups[k])

\* C39: for every dependency map, with repeated dependencies, dependencies
\* on ids that are no key, and cycles, the groups returned by either
\* topological grouping form a partition of the map's keys: every key is in
\* exactly one group, no group is empty, no id that is not a key appears,
\* and the members of a group are in ascending order.
C39_GroupsPartitionKeys ==
    /\ Returned(topo.e) => PartitionOfKeys(topo.e)
    /\ Returned(topo.l) => PartitionOfKeys(topo.l)

\* both calls returned on a map where one key depends on an id that is no
\* key, two keys are on a cycle, and a group has two members
C39_Witness ==
    /\ Returned(topo.e)
    /\ Returned(topo.l)
    /\ \E n \in topo.keys : \E k \in DOMAIN topo.deps[n] :
          topo.deps[n][k] \notin topo.keys
    /\ OnCycle # {}
    /\ \E k \in DOMAIN topo.e.groups : Len(topo.e.groups[k]) = 2

\* ------------------------------------------------- C40: parallel mode ends
\* no invocation is cut short by Ctrl+C: each one returns
InvocationsReturn == cancelReq = {}

\* _run_parallel returned: one state per issue, in the order of the issues,
\* each the state its task's run_pipeline returned, and no permit is held
ParReturned ==
    /\ mpc = "end"
    /\ outcome = "returned"
    /\ Len(states) = Len(issues)
    /\ \A k \in 1..Len(issues) :
          /\ run[k].pc = "done"
          /\ run[k].res = "state"
          /\ states[k] = StateOf(k)
          /\ states[k].slug = issues[k]
    /\ Holders = {}

\* C40: in parallel mode with parallel_workers >= 1, if every agent and
\* reviewer invocation eventually returns, every launched task eventually
\* gets through the admission gate and finishes, the permit comes back on
\* every exit of a pipeline (approved, failed, exception), so that never more
\* than parallel_workers tasks are inside and none is left waiting, and the
\* dispatcher returns exactly one state per issue in the order of the input.
C40_ParallelCompletes ==
    /\ [](Cardinality(Holders) <= config.parallel_workers)
    /\ [](outcome = "returned" => ParReturned)
    /\ ([]InvocationsReturn => <>ParReturned)

\* three issues behind a gate of one permit, all returned: one approved, one
\* failed by an exception, so the later tasks got the permit of the earlier
C40_Witness ==
    /\ ParReturned
    /\ config.parallel_workers = 1
    /\ Len(issues) = 3
    /\ \E k \in 1..2 : states[k].status = "failed" /\ states[k].error = "exception"
    /\ \E k \in 1..2 : states[k].status = "approved"

====
